---- MODULE Spec2Model ----
(***************************************************************************)
(* Model of the Aresplot MCU client (src/aresplot_client.c): the byte-fed  *)
(* frame receiver, the command handlers, the single-slot acknowledgement   *)
(* queue and the periodic service that transmits acknowledgements and      *)
(* monitor-data frames.                                                    *)
(*                                                                         *)
(* Representation.  TLC integers are 32-bit signed, so a C uint32_t is a   *)
(* pair <<hi, lo>> of 16-bit halves and all arithmetic on it is done       *)
(* modulo 2^32 on the halves.  Bytes are 0..255.  The target is taken to   *)
(* be little-endian (the code memcpy's little-endian wire bytes into a     *)
(* float).                                                                 *)
(***************************************************************************)
EXTENDS Integers, Sequences, FiniteSets, TLC

\* ------------------------------------------------------------------------
\* Program constants
\* ------------------------------------------------------------------------
ARESPLOT_MAX_VARS_TO_MONITOR == 10
ARESPLOT_SHARED_BUFFER_SIZE == 128
ARESPLOT_DEFAULT_SAMPLE_PERIOD_MS == 10
ARESPLOT_SOP == 165
ARESPLOT_EOP == 90
ARESPLOT_CMD_START_MONITOR == 1
ARESPLOT_CMD_SET_VARIABLE == 2
ARESPLOT_CMD_SET_SAMPLE_RATE == 3
ARESPLOT_CMD_MONITOR_DATA == 129
ARESPLOT_CMD_ACK == 130

ARES_TYPE_INT8 == 0
ARES_TYPE_UINT8 == 1
ARES_TYPE_INT16 == 2
ARES_TYPE_UINT16 == 3
ARES_TYPE_INT32 == 4
ARES_TYPE_UINT32 == 5
ARES_TYPE_FLOAT32 == 6
ARES_TYPE_FLOAT64 == 7
ARES_TYPE_BOOL == 8

ARES_STATUS_OK == 0
ARES_STATUS_ERROR_CHECKSUM == 1
ARES_STATUS_ERROR_UNKNOWN_CMD == 2
ARES_STATUS_ERROR_INVALID_PAYLOAD == 3
ARES_STATUS_ERROR_TYPE_UNSUPPORTED == 5
ARES_STATUS_ERROR_MCU_BUSY_OR_LIMIT == 7

\* aresplot_rx_state_t
ARES_RX_STATE_WAIT_SOP == "WAIT_SOP"
ARES_RX_STATE_WAIT_CMD == "WAIT_CMD"
ARES_RX_STATE_WAIT_LEN1 == "WAIT_LEN1"
ARES_RX_STATE_WAIT_LEN2 == "WAIT_LEN2"
ARES_RX_STATE_WAIT_PAYLOAD == "WAIT_PAYLOAD"
ARES_RX_STATE_WAIT_CHECKSUM == "WAIT_CHECKSUM"
ARES_RX_STATE_WAIT_EOP == "WAIT_EOP"

\* ------------------------------------------------------------------------
\* Bounds of the model
\* ------------------------------------------------------------------------
\* frames the host sends in one behaviour
MaxFrames == 2
\* advances of the millisecond tick in one behaviour
MaxAdvance == 2

\* ------------------------------------------------------------------------
\* Fixed-width arithmetic
\* ------------------------------------------------------------------------
RECURSIVE Pow2(_)
Pow2(n) == IF n = 0 THEN 1 ELSE 2 * Pow2(n - 1)

\* bitwise exclusive or of two bytes (the C ^ on uint8_t)
RECURSIVE XorBits(_, _, _)
XorBits(a, b, n) ==
    IF n = 0 THEN 0
    ELSE ((a + b) % 2) + 2 * XorBits(a \div 2, b \div 2, n - 1)

Xor8(a, b) == XorBits(a, b, 8)

\* floor(log2(n)) for n >= 1
RECURSIVE Log2(_)
Log2(n) == IF n <= 1 THEN 0 ELSE 1 + Log2(n \div 2)

\* uint32_t as <<hi, lo>>
U32(n) == <<n \div 65536, n % 65536>>
U32Zero == <<0, 0>>
U32Max == <<65535, 65535>>

\* the little-endian composition  b0 | b1 << 8 | b2 << 16 | b3 << 24
U32FromBytes(b0, b1, b2, b3) == <<b3 * 256 + b2, b1 * 256 + b0>>

\* the four bytes  (x & 0xFF), (x >> 8) & 0xFF, (x >> 16) & 0xFF, (x >> 24) & 0xFF
U32Bytes(w) == <<w[2] % 256, w[2] \div 256, w[1] % 256, w[1] \div 256>>

\* uint32_t +, -, >= (wrapping modulo 2^32)
Add32(a, b) ==
    LET lo == a[2] + b[2]
        hi == a[1] + b[1] + (lo \div 65536)
    IN <<hi % 65536, lo % 65536>>

Sub32(a, b) ==
    LET lo == a[2] - b[2]
        bw == IF lo < 0 THEN 1 ELSE 0
        hi == a[1] - b[1] - bw
    IN <<hi % 65536, lo % 65536>>

Ge32(a, b) == (a[1] > b[1]) \/ (a[1] = b[1] /\ a[2] >= b[2])

\* uint32_t division of a small constant n (< 65536) by w # 0
DivSmallBy32(n, w) == IF w[1] > 0 THEN U32Zero ELSE U32(n \div w[2])

\* ------------------------------------------------------------------------
\* float (IEEE-754 binary32) conversions, on the four little-endian bytes
\* ------------------------------------------------------------------------
FloatSign(fb) == fb[4] \div 128
FloatExp(fb) == (fb[4] % 128) * 2 + (fb[3] \div 128)
FloatMant(fb) == (fb[3] % 128) * 65536 + fb[2] * 256 + fb[1]

\* float_val != 0.0f  (a NaN compares unequal to zero)
FloatNonZero(fb) == ~(FloatExp(fb) = 0 /\ FloatMant(fb) = 0)

\* The integral part of a float, truncated toward zero, as sign and
\* magnitude.  big: the magnitude is 2^32 or more, or the float is an
\* infinity or a NaN: no integer type of the target can hold it.
FloatTrunc(fb) ==
    LET e == FloatExp(fb) - 127
        sig == 8388608 + FloatMant(fb)
    IN  IF FloatExp(fb) = 255 \/ e >= 32
          THEN [neg |-> FloatSign(fb) = 1, mag |-> U32Zero, big |-> TRUE]
        ELSE IF e < 0
          THEN [neg |-> FALSE, mag |-> U32Zero, big |-> FALSE]
        ELSE IF e <= 23
          THEN [neg |-> FloatSign(fb) = 1 /\ sig \div Pow2(23 - e) # 0,
                mag |-> U32(sig \div Pow2(23 - e)), big |-> FALSE]
        ELSE IF e <= 30
          THEN [neg |-> FloatSign(fb) = 1,
                mag |-> U32(sig * Pow2(e - 23)), big |-> FALSE]
        ELSE [neg |-> FloatSign(fb) = 1,
              mag |-> <<sig \div 256, (sig % 256) * 256>>, big |-> FALSE]

\* width in bytes of the object a set/monitor access touches
TypeWidth(type) ==
    CASE type \in {ARES_TYPE_INT8, ARES_TYPE_UINT8, ARES_TYPE_BOOL} -> 1
      [] type \in {ARES_TYPE_INT16, ARES_TYPE_UINT16} -> 2
      [] OTHER -> 4

TypeSigned(type) == type \in {ARES_TYPE_INT8, ARES_TYPE_INT16, ARES_TYPE_INT32}

\* can the truncated value be represented in the integer type (C11 6.3.1.4)
Representable(t, type) ==
    LET w == TypeWidth(type)
        \* 2^(8w-1) as a U32
        half == CASE w = 1 -> <<0, 128>> [] w = 2 -> <<0, 32768>> [] OTHER -> <<32768, 0>>
        top == CASE w = 1 -> <<0, 255>> [] w = 2 -> <<0, 65535>> [] OTHER -> U32Max
    IN  /\ ~t.big
        /\ IF TypeSigned(type)
             THEN IF t.neg THEN Ge32(half, t.mag)
                  ELSE ~Ge32(t.mag, half)
             ELSE ~t.neg /\ Ge32(top, t.mag)

\* the first w little-endian bytes of the two's complement of (neg, mag)
IntBytes(neg, mag, w) ==
    LET v == IF neg THEN Sub32(U32Zero, mag) ELSE mag
    IN SubSeq(U32Bytes(v), 1, w)

\* (T)float_val for an integer type T: the bytes stored.  A value that T
\* cannot represent is undefined behaviour: ub, drawn by the caller, is the
\* 32-bit pattern the build happens to produce.
FloatToIntBytes(fb, type, ub) ==
    LET t == FloatTrunc(fb)
    IN  IF Representable(t, type)
          THEN IntBytes(t.neg, t.mag, TypeWidth(type))
          ELSE SubSeq(U32Bytes(ub), 1, TypeWidth(type))

\* (float)v for an integer of sign and magnitude (neg, mag), rounded to
\* nearest, ties to even: the four little-endian bytes of the float
IntToFloatBytes(neg, mag) ==
    IF mag = U32Zero THEN <<0, 0, 0, 0>>
    ELSE
    LET e0 == IF mag[1] > 0 THEN 16 + Log2(mag[1]) ELSE Log2(mag[2])
        s == e0 - 23
        q0 == IF s <= 0 THEN (mag[1] * 65536 + mag[2]) * Pow2(0 - s)
              ELSE mag[1] * Pow2(16 - s) + (mag[2] \div Pow2(s))
        r == IF s <= 0 THEN 0 ELSE mag[2] % Pow2(s)
        half == IF s <= 0 THEN 1 ELSE Pow2(s - 1)
        up == s > 0 /\ (r > half \/ (r = half /\ q0 % 2 = 1))
        q1 == IF up THEN q0 + 1 ELSE q0
        e == IF q1 = 16777216 THEN e0 + 1 ELSE e0
        m == IF q1 = 16777216 THEN 0 ELSE q1 - 8388608
        ex == e + 127
    IN <<m % 256, (m \div 256) % 256,
         (ex % 2) * 128 + (m \div 65536),
         (IF neg THEN 128 ELSE 0) + (ex \div 2)>>

\* the value of w little-endian bytes read as a signed or unsigned integer
BytesToInt(bs, signed) ==
    LET w == Len(bs)
        raw == U32FromBytes(bs[1],
                            IF w >= 2 THEN bs[2] ELSE 0,
                            IF w >= 3 THEN bs[3] ELSE 0,
                            IF w >= 4 THEN bs[4] ELSE 0)
        isneg == signed /\ bs[w] >= 128
        ext == CASE w = 1 -> <<65535, 65280 + raw[2]>>
                 [] w = 2 -> <<65535, raw[2]>>
                 [] OTHER -> raw
    IN [neg |-> isneg, mag |-> IF isneg THEN Sub32(U32Zero, ext) ELSE raw]

\* ------------------------------------------------------------------------
\* Target memory: the window of the MCU's address space the model watches
\* ------------------------------------------------------------------------
\* bytes of target memory watched, starting at 0x20000000
MemSize == 8
MemAddr(i) == <<8192, i>>
MemAddrs == {MemAddr(i) : i \in 0..(MemSize - 1)}
MemInit == [a \in MemAddrs |-> CASE a[2] = 0 -> 255 [] a[2] = 1 -> 1 [] a[2] = 4 -> 128 [] OTHER -> 0]

\* a store of the bytes bs at address addr (bytes outside the window are
\* stored too, but not watched)
RECURSIVE MemWrite(_, _, _)
MemWrite(m, addr, bs) ==
    IF bs = <<>> THEN m
    ELSE MemWrite(IF addr \in MemAddrs THEN [m EXCEPT ![addr] = Head(bs)] ELSE m,
                  Add32(addr, U32(1)), Tail(bs))

\* a load of w bytes at address addr; u is the byte an address outside the
\* window happens to hold
MemRead(m, addr, w, u) ==
    [k \in 1..w |->
        LET a == Add32(addr, U32(k - 1))
        IN IF a \in MemAddrs THEN m[a] ELSE u]

\* ------------------------------------------------------------------------
\* Program state
\* ------------------------------------------------------------------------
VARIABLES
    g_rx_state, g_rx_payload_buffer, g_rx_payload_len, g_rx_payload_idx,
    g_rx_cmd, g_rx_checksum_calculated,
    g_monitor_vars, g_num_monitor_vars, g_monitoring_active,
    g_sample_period_ms, g_last_sample_time_ms,
    g_tx_assembly_buffer,
    g_ack_pending, g_ack_cmd_to_ack, g_ack_status_to_send,
    \* the environment the callbacks reach
    mem,        \* target memory
    cs_depth,   \* critical sections entered and not yet exited
    tick,       \* the millisecond tick aresplot_user_get_tick_ms returns
    wire,       \* bytes the host has sent that were not fed yet
    \* what the environment has done so far
    hostLog,    \* the frames the host has sent
    advances,   \* advances of the tick
    \* the service invocation in progress, where it runs statement by statement
    svc_pc,     \* the statement aresplot_service_tick is at, "idle" between calls
    svc,        \* its local variables
    \* observation of the program's calls
    obs_fire,     \* the tick read by the invocation that sent the last monitor data
    obs_quiet,    \* the acknowledgement of a start-monitor frame that left
                  \* monitoring inactive was taken from the slot for sending,
                  \* and no start-monitor frame has installed a set since
    obs_dispatch, \* frames handed to process_received_frame
    obs_acks,     \* calls of queue_ack_response since the slot was last drained
    obs_tick      \* what the call that has just returned read, decided, handed
                  \* to the transport and did to memory and to the slot

progVars == <<g_rx_state, g_rx_payload_buffer, g_rx_payload_len, g_rx_payload_idx,
              g_rx_cmd, g_rx_checksum_calculated,
              g_monitor_vars, g_num_monitor_vars, g_monitoring_active,
              g_sample_period_ms, g_last_sample_time_ms,
              g_tx_assembly_buffer,
              g_ack_pending, g_ack_cmd_to_ack, g_ack_status_to_send,
              mem, cs_depth, svc_pc, svc, obs_fire, obs_quiet, obs_dispatch, obs_acks>>

vars == <<progVars, obs_tick, tick, wire, hostLog, advances>>

\* the program's state as one record, so that a handler is a function of it
State ==
    [g_rx_state |-> g_rx_state,
     g_rx_payload_buffer |-> g_rx_payload_buffer,
     g_rx_payload_len |-> g_rx_payload_len,
     g_rx_payload_idx |-> g_rx_payload_idx,
     g_rx_cmd |-> g_rx_cmd,
     g_rx_checksum_calculated |-> g_rx_checksum_calculated,
     g_monitor_vars |-> g_monitor_vars,
     g_num_monitor_vars |-> g_num_monitor_vars,
     g_monitoring_active |-> g_monitoring_active,
     g_sample_period_ms |-> g_sample_period_ms,
     g_last_sample_time_ms |-> g_last_sample_time_ms,
     g_tx_assembly_buffer |-> g_tx_assembly_buffer,
     g_ack_pending |-> g_ack_pending,
     g_ack_cmd_to_ack |-> g_ack_cmd_to_ack,
     g_ack_status_to_send |-> g_ack_status_to_send,
     mem |-> mem,
     cs_depth |-> cs_depth,
     svc_pc |-> svc_pc,
     svc |-> svc,
     obs_fire |-> obs_fire,
     obs_quiet |-> obs_quiet,
     obs_dispatch |-> obs_dispatch,
     obs_acks |-> obs_acks,
     obs_tick |-> obs_tick]

\* the program's state becomes n
Becomes(n) ==
    /\ g_rx_state' = n.g_rx_state
    /\ g_rx_payload_buffer' = n.g_rx_payload_buffer
    /\ g_rx_payload_len' = n.g_rx_payload_len
    /\ g_rx_payload_idx' = n.g_rx_payload_idx
    /\ g_rx_cmd' = n.g_rx_cmd
    /\ g_rx_checksum_calculated' = n.g_rx_checksum_calculated
    /\ g_monitor_vars' = n.g_monitor_vars
    /\ g_num_monitor_vars' = n.g_num_monitor_vars
    /\ g_monitoring_active' = n.g_monitoring_active
    /\ g_sample_period_ms' = n.g_sample_period_ms
    /\ g_last_sample_time_ms' = n.g_last_sample_time_ms
    /\ g_tx_assembly_buffer' = n.g_tx_assembly_buffer
    /\ g_ack_pending' = n.g_ack_pending
    /\ g_ack_cmd_to_ack' = n.g_ack_cmd_to_ack
    /\ g_ack_status_to_send' = n.g_ack_status_to_send
    /\ mem' = n.mem
    /\ cs_depth' = n.cs_depth
    /\ svc_pc' = n.svc_pc
    /\ svc' = n.svc
    /\ obs_fire' = n.obs_fire
    /\ obs_quiet' = n.obs_quiet
    /\ obs_dispatch' = n.obs_dispatch
    /\ obs_acks' = n.obs_acks
    /\ obs_tick' = n.obs_tick

\* ------------------------------------------------------------------------
\* The user callbacks
\* ------------------------------------------------------------------------
\* mutant: entering a critical section excludes nobody
aresplot_user_critical_enter_noop(s) == s

aresplot_user_critical_enter(s) == [s EXCEPT !.cs_depth = @ + 1]
aresplot_user_critical_exit(s) == [s EXCEPT !.cs_depth = @ - 1]

\* the call notes operation op ("send", "load" and "store" for the transport
\* and target memory, "write" for the monitor table and the sample clock,
\* "ack" for the slot), and how many critical sections are open
Noted(s, op) ==
    [s EXCEPT !.obs_tick.ops = Append(@, [op |-> op, cs |-> s.cs_depth])]

\* the packet joins those the running call has sent
aresplot_user_send_packet(s, data) ==
    Noted([s EXCEPT !.obs_tick.pkts = Append(@, data),
                    !.obs_tick.cs_at_send = IF s.cs_depth > @ THEN s.cs_depth ELSE @],
          "send")

\* ------------------------------------------------------------------------
\* Frame assembly
\* ------------------------------------------------------------------------
\* the xor of bs[lo..hi]; the loop of calculate_checksum, split in halves
\* (xor is associative) to keep the evaluation shallow
RECURSIVE XorRange(_, _, _)
XorRange(bs, lo, hi) ==
    IF lo > hi THEN 0
    ELSE IF lo = hi THEN bs[lo]
    ELSE LET mid == (lo + hi) \div 2
         IN Xor8(XorRange(bs, lo, mid), XorRange(bs, mid + 1, hi))

\* mutant: the two length bytes are left out of the checksum
calculate_checksum_no_len(cmd, len, payload) ==
    Xor8(Xor8(0, cmd), XorRange(payload, 1, len))

calculate_checksum(cmd, len, payload) ==
    Xor8(Xor8(Xor8(Xor8(0, cmd), len % 256), (len \div 256) % 256),
         XorRange(payload, 1, len))

\* the bytes of the frame, in the order they are written to the buffer
FrameBytes(cmd, payload) ==
    LET len == Len(payload)
    IN <<ARESPLOT_SOP, cmd, len % 256, (len \div 256) % 256>>
         \o payload
         \o <<calculate_checksum(cmd, len, payload), ARESPLOT_EOP>>

\* uint16_t total_frame_len = 1 + 1 + 2 + len + 1 + 1
TotalFrameLen(len) == (1 + 1 + 2 + len + 1 + 1) % 65536

assemble_and_send_frame_internal(s, cmd, payload) ==
    IF TotalFrameLen(Len(payload)) > ARESPLOT_SHARED_BUFFER_SIZE THEN s
    ELSE
    LET fr == FrameBytes(cmd, payload)
        s1 == [s EXCEPT !.g_tx_assembly_buffer =
                  [i \in 0..(ARESPLOT_SHARED_BUFFER_SIZE - 1) |->
                      IF i < Len(fr) THEN fr[i + 1] ELSE @[i]]]
        \* aresplot_user_send_packet(g_tx_assembly_buffer, frame_idx)
    IN aresplot_user_send_packet(s1, [k \in 1..Len(fr) |-> s1.g_tx_assembly_buffer[k - 1]])

\* ------------------------------------------------------------------------
\* The acknowledgement slot
\* ------------------------------------------------------------------------
\* mutant: an unsent acknowledgement is kept, the new one is dropped
queue_ack_response_keep_first(s, ack_cmd_id, status) ==
    LET s1 == aresplot_user_critical_enter(s)
        s2 == [s1 EXCEPT !.g_ack_cmd_to_ack = IF s.g_ack_pending = 1 THEN @ ELSE ack_cmd_id,
                         !.g_ack_status_to_send = IF s.g_ack_pending = 1 THEN @ ELSE status,
                         !.g_ack_pending = 1,
                         !.obs_acks = Append(@, [cmd |-> ack_cmd_id, status |-> status,
                                                 cs |-> s1.cs_depth])]
    IN aresplot_user_critical_exit(Noted(s2, "ack"))

queue_ack_response(s, ack_cmd_id, status) ==
    LET s1 == aresplot_user_critical_enter(s)
        s2 == [s1 EXCEPT !.g_ack_cmd_to_ack = ack_cmd_id,
                         !.g_ack_status_to_send = status,
                         !.g_ack_pending = 1,
                         !.obs_acks = Append(@, [cmd |-> ack_cmd_id, status |-> status,
                                                 cs |-> s1.cs_depth])]
    IN aresplot_user_critical_exit(Noted(s2, "ack"))

\* ------------------------------------------------------------------------
\* Command handlers
\* ------------------------------------------------------------------------
\* the address and type of entry i of a start-monitor payload
VarInfoOfPayload(buf, i) ==
    [ptr |-> U32FromBytes(buf[1 + i * 5], buf[1 + i * 5 + 1],
                          buf[1 + i * 5 + 2], buf[1 + i * 5 + 3]),
     type |-> buf[1 + i * 5 + 4]]

\* mutant: the count is compared with one more than the maximum
StartMonitorBranch_off_by_one(num_vars_requested, payload_len) ==
    IF num_vars_requested = 0 THEN "stop"
    ELSE IF num_vars_requested > ARESPLOT_MAX_VARS_TO_MONITOR + 1 THEN "limit"
    ELSE IF payload_len # (1 + num_vars_requested * 5) THEN "invalid"
    ELSE "install"

\* mutant: the payload length is checked before the count
StartMonitorBranch_len_first(num_vars_requested, payload_len) ==
    IF payload_len # (1 + num_vars_requested * 5) THEN "invalid"
    ELSE IF num_vars_requested = 0 THEN "stop"
    ELSE IF num_vars_requested > ARESPLOT_MAX_VARS_TO_MONITOR THEN "limit"
    ELSE "install"

\* the if / else-if chain of the start-monitor handler
StartMonitorBranch(num_vars_requested, payload_len) ==
    IF num_vars_requested = 0 THEN "stop"
    ELSE IF num_vars_requested > ARESPLOT_MAX_VARS_TO_MONITOR THEN "limit"
    ELSE IF payload_len # (1 + num_vars_requested * 5) THEN "invalid"
    ELSE "install"

\* mutant: the last-sample time is not reset when a set is installed
handle_cmd_start_monitor_no_reset(s, now) ==
    LET num_vars_requested == s.g_rx_payload_buffer[0]
        branch == StartMonitorBranch(num_vars_requested, s.g_rx_payload_len)
        s1 == [Noted(aresplot_user_critical_enter(s), "write") EXCEPT
                  !.g_monitoring_active = 0,
                  !.g_num_monitor_vars = 0]
        status ==
            CASE branch = "stop" -> ARES_STATUS_OK
              [] branch = "limit" -> ARES_STATUS_ERROR_MCU_BUSY_OR_LIMIT
              [] branch = "invalid" -> ARES_STATUS_ERROR_INVALID_PAYLOAD
              [] OTHER -> ARES_STATUS_OK
        s2 == IF branch = "install"
                THEN [s1 EXCEPT
                        !.g_num_monitor_vars = num_vars_requested,
                        !.g_monitor_vars =
                            [i \in 0..(ARESPLOT_MAX_VARS_TO_MONITOR - 1) |->
                                IF i < num_vars_requested
                                  THEN VarInfoOfPayload(s.g_rx_payload_buffer, i)
                                  ELSE @[i]],
                        !.g_monitoring_active = 1,
                        !.obs_quiet = FALSE]
                ELSE s1
    IN queue_ack_response(aresplot_user_critical_exit(s2),
                          ARESPLOT_CMD_START_MONITOR, status)

\* mutant: the count is stored before it is compared with the maximum
handle_cmd_start_monitor_count_first(s, now) ==
    LET num_vars_requested == s.g_rx_payload_buffer[0]
        branch == StartMonitorBranch(num_vars_requested, s.g_rx_payload_len)
        s1 == [Noted(aresplot_user_critical_enter(s), "write") EXCEPT
                  !.g_monitoring_active = 0,
                  !.g_num_monitor_vars = num_vars_requested]
        status ==
            CASE branch = "stop" -> ARES_STATUS_OK
              [] branch = "limit" -> ARES_STATUS_ERROR_MCU_BUSY_OR_LIMIT
              [] branch = "invalid" -> ARES_STATUS_ERROR_INVALID_PAYLOAD
              [] OTHER -> ARES_STATUS_OK
        s2 == IF branch = "install"
                THEN [s1 EXCEPT
                        !.g_num_monitor_vars = num_vars_requested,
                        !.g_monitor_vars =
                            [i \in 0..(ARESPLOT_MAX_VARS_TO_MONITOR - 1) |->
                                IF i < num_vars_requested
                                  THEN VarInfoOfPayload(s.g_rx_payload_buffer, i)
                                  ELSE @[i]],
                        !.g_monitoring_active = 1,
                        !.g_last_sample_time_ms = now,
                        !.obs_quiet = FALSE]
                ELSE s1
    IN queue_ack_response(aresplot_user_critical_exit(s2),
                          ARESPLOT_CMD_START_MONITOR, status)

\* mutant: the flag and the count are not cleared on entry
handle_cmd_start_monitor_no_clear(s, now) ==
    LET num_vars_requested == s.g_rx_payload_buffer[0]
        branch == StartMonitorBranch(num_vars_requested, s.g_rx_payload_len)
        s1 == Noted(aresplot_user_critical_enter(s), "write")
        status ==
            CASE branch = "stop" -> ARES_STATUS_OK
              [] branch = "limit" -> ARES_STATUS_ERROR_MCU_BUSY_OR_LIMIT
              [] branch = "invalid" -> ARES_STATUS_ERROR_INVALID_PAYLOAD
              [] OTHER -> ARES_STATUS_OK
        s2 == IF branch = "install"
                THEN [s1 EXCEPT
                        !.g_num_monitor_vars = num_vars_requested,
                        !.g_monitor_vars =
                            [i \in 0..(ARESPLOT_MAX_VARS_TO_MONITOR - 1) |->
                                IF i < num_vars_requested
                                  THEN VarInfoOfPayload(s.g_rx_payload_buffer, i)
                                  ELSE @[i]],
                        !.g_monitoring_active = 1,
                        !.g_last_sample_time_ms = now,
                        !.obs_quiet = FALSE]
                ELSE s1
    IN queue_ack_response(aresplot_user_critical_exit(s2),
                          ARESPLOT_CMD_START_MONITOR, status)

handle_cmd_start_monitor(s, now) ==
    LET num_vars_requested == s.g_rx_payload_buffer[0]
        branch == StartMonitorBranch(num_vars_requested, s.g_rx_payload_len)
        s1 == [Noted(aresplot_user_critical_enter(s), "write") EXCEPT
                  !.g_monitoring_active = 0,
                  !.g_num_monitor_vars = 0]
        status ==
            CASE branch = "stop" -> ARES_STATUS_OK
              [] branch = "limit" -> ARES_STATUS_ERROR_MCU_BUSY_OR_LIMIT
              [] branch = "invalid" -> ARES_STATUS_ERROR_INVALID_PAYLOAD
              [] OTHER -> ARES_STATUS_OK
        s2 == IF branch = "install"
                THEN [s1 EXCEPT
                        !.g_num_monitor_vars = num_vars_requested,
                        !.g_monitor_vars =
                            [i \in 0..(ARESPLOT_MAX_VARS_TO_MONITOR - 1) |->
                                IF i < num_vars_requested
                                  THEN VarInfoOfPayload(s.g_rx_payload_buffer, i)
                                  ELSE @[i]],
                        !.g_monitoring_active = 1,
                        !.g_last_sample_time_ms = now,
                        !.obs_quiet = FALSE]
                ELSE s1
    IN queue_ack_response(aresplot_user_critical_exit(s2),
                          ARESPLOT_CMD_START_MONITOR, status)

\* mutant: the 64-bit float tag is given a case too
SetVariableTypes_with_float64 ==
    {ARES_TYPE_INT8, ARES_TYPE_UINT8, ARES_TYPE_INT16, ARES_TYPE_UINT16,
     ARES_TYPE_INT32, ARES_TYPE_UINT32, ARES_TYPE_FLOAT32, ARES_TYPE_FLOAT64,
     ARES_TYPE_BOOL}

\* the type tags the set handler has a conversion for
SetVariableTypes ==
    {ARES_TYPE_INT8, ARES_TYPE_UINT8, ARES_TYPE_INT16, ARES_TYPE_UINT16,
     ARES_TYPE_INT32, ARES_TYPE_UINT32, ARES_TYPE_FLOAT32, ARES_TYPE_BOOL}

\* the bytes the switch of the set handler stores for a supported type
SetVariableBytes(original_type, fb, ub) ==
    CASE original_type = ARES_TYPE_FLOAT32 -> fb
      [] original_type = ARES_TYPE_BOOL -> <<IF FloatNonZero(fb) THEN 1 ELSE 0>>
      [] OTHER -> FloatToIntBytes(fb, original_type, ub)

\* a store through a target address
TargetStore(s, addr, bs) ==
    Noted([s EXCEPT !.mem = MemWrite(@, addr, bs)], "store")

handle_cmd_set_variable(s, ub) ==
    IF s.g_rx_payload_len # 9
      THEN queue_ack_response(s, ARESPLOT_CMD_SET_VARIABLE,
                              ARES_STATUS_ERROR_INVALID_PAYLOAD)
    ELSE
    LET p == s.g_rx_payload_buffer
        addr == U32FromBytes(p[0], p[1], p[2], p[3])
        original_type == p[4]
        float_val == <<p[5], p[6], p[7], p[8]>>
        s1 == aresplot_user_critical_enter(s)
    IN  IF original_type \in SetVariableTypes
          THEN queue_ack_response(
                   aresplot_user_critical_exit(
                       TargetStore(s1, addr,
                                   SetVariableBytes(original_type, float_val, ub))),
                   ARESPLOT_CMD_SET_VARIABLE, ARES_STATUS_OK)
          ELSE queue_ack_response(aresplot_user_critical_exit(s1),
                                  ARESPLOT_CMD_SET_VARIABLE,
                                  ARES_STATUS_ERROR_TYPE_UNSUPPORTED)

\* mutant: the quotient is stored as it is, zero included
SamplePeriodOfRate_no_floor(rate_hz) ==
    IF rate_hz = U32Zero THEN U32(ARESPLOT_DEFAULT_SAMPLE_PERIOD_MS)
    ELSE DivSmallBy32(1000, rate_hz)

\* period for a requested rate: 1000 / rate_hz, floored at 1; the default for 0
SamplePeriodOfRate(rate_hz) ==
    IF rate_hz = U32Zero THEN U32(ARESPLOT_DEFAULT_SAMPLE_PERIOD_MS)
    ELSE LET period_ms == DivSmallBy32(1000, rate_hz)
         IN IF period_ms = U32Zero /\ rate_hz # U32Zero THEN U32(1) ELSE period_ms

\* mutant: a payload longer than four bytes is accepted
handle_cmd_set_sample_rate_min_len(s, now) ==
    IF s.g_rx_payload_len < 4
      THEN queue_ack_response(s, ARESPLOT_CMD_SET_SAMPLE_RATE,
                              ARES_STATUS_ERROR_INVALID_PAYLOAD)
    ELSE
    LET p == s.g_rx_payload_buffer
        rate_hz == U32FromBytes(p[0], p[1], p[2], p[3])
        s1 == [Noted(aresplot_user_critical_enter(s), "write") EXCEPT
                  !.g_sample_period_ms = SamplePeriodOfRate(rate_hz),
                  !.g_last_sample_time_ms = now]
    IN queue_ack_response(aresplot_user_critical_exit(s1),
                          ARESPLOT_CMD_SET_SAMPLE_RATE, ARES_STATUS_OK)

handle_cmd_set_sample_rate(s, now) ==
    IF s.g_rx_payload_len # 4
      THEN queue_ack_response(s, ARESPLOT_CMD_SET_SAMPLE_RATE,
                              ARES_STATUS_ERROR_INVALID_PAYLOAD)
    ELSE
    LET p == s.g_rx_payload_buffer
        rate_hz == U32FromBytes(p[0], p[1], p[2], p[3])
        s1 == [Noted(aresplot_user_critical_enter(s), "write") EXCEPT
                  !.g_sample_period_ms = SamplePeriodOfRate(rate_hz),
                  !.g_last_sample_time_ms = now]
    IN queue_ack_response(aresplot_user_critical_exit(s1),
                          ARESPLOT_CMD_SET_SAMPLE_RATE, ARES_STATUS_OK)

\* what the dispatcher was handed, and the count byte the start-monitor
\* handler reads
DispatchRecord(s) ==
    [cmd |-> s.g_rx_cmd,
     len |-> s.g_rx_payload_len,
     payload |-> [k \in 1..s.g_rx_payload_len |-> s.g_rx_payload_buffer[k - 1]],
     buf0 |-> s.g_rx_payload_buffer[0]]

\* mutant: a command with no handler is dropped without an acknowledgement
process_received_frame_drop_unknown(s, now, ub) ==
    LET s0 == [s EXCEPT !.obs_dispatch = Append(@, DispatchRecord(s))]
    IN CASE s.g_rx_cmd = ARESPLOT_CMD_START_MONITOR -> handle_cmd_start_monitor(s0, now)
         [] s.g_rx_cmd = ARESPLOT_CMD_SET_VARIABLE -> handle_cmd_set_variable(s0, ub)
         [] s.g_rx_cmd = ARESPLOT_CMD_SET_SAMPLE_RATE -> handle_cmd_set_sample_rate(s0, now)
         [] OTHER -> s0

process_received_frame(s, now, ub) ==
    LET s0 == [s EXCEPT !.obs_dispatch = Append(@, DispatchRecord(s))]
    IN CASE s.g_rx_cmd = ARESPLOT_CMD_START_MONITOR -> handle_cmd_start_monitor(s0, now)
         [] s.g_rx_cmd = ARESPLOT_CMD_SET_VARIABLE -> handle_cmd_set_variable(s0, ub)
         [] s.g_rx_cmd = ARESPLOT_CMD_SET_SAMPLE_RATE -> handle_cmd_set_sample_rate(s0, now)
         [] OTHER -> queue_ack_response(s0, s.g_rx_cmd, ARES_STATUS_ERROR_UNKNOWN_CMD)

\* ------------------------------------------------------------------------
\* The frame receiver
\* ------------------------------------------------------------------------
\* case ARES_RX_STATE_WAIT_SOP
RxWaitSop(s, byte) ==
    IF byte = ARESPLOT_SOP
      THEN [s EXCEPT !.g_rx_state = ARES_RX_STATE_WAIT_CMD,
                     !.g_rx_checksum_calculated = 0]
      ELSE s

\* case ARES_RX_STATE_WAIT_CMD
RxWaitCmd(s, byte) ==
    [s EXCEPT !.g_rx_cmd = byte,
              !.g_rx_checksum_calculated = Xor8(@, byte),
              !.g_rx_state = ARES_RX_STATE_WAIT_LEN1]

\* case ARES_RX_STATE_WAIT_LEN1
RxWaitLen1(s, byte) ==
    [s EXCEPT !.g_rx_payload_len = byte,
              !.g_rx_checksum_calculated = Xor8(@, byte),
              !.g_rx_state = ARES_RX_STATE_WAIT_LEN2]

\* mutant: a length one above the capacity is let through
RxWaitLen2_off_by_one(s, byte) ==
    LET len == s.g_rx_payload_len + byte * 256
        s1 == [s EXCEPT !.g_rx_payload_len = len,
                        !.g_rx_checksum_calculated = Xor8(@, byte)]
    IN IF len > ARESPLOT_SHARED_BUFFER_SIZE + 1
         THEN [s1 EXCEPT !.g_rx_state = ARES_RX_STATE_WAIT_SOP]
       ELSE IF len = 0
         THEN [s1 EXCEPT !.g_rx_state = ARES_RX_STATE_WAIT_CHECKSUM]
       ELSE [s1 EXCEPT !.g_rx_payload_idx = 0,
                       !.g_rx_state = ARES_RX_STATE_WAIT_PAYLOAD]

\* case ARES_RX_STATE_WAIT_LEN2: g_rx_payload_len |= byte << 8 on a uint16_t
\* whose high byte is clear
RxWaitLen2(s, byte) ==
    LET len == s.g_rx_payload_len + byte * 256
        s1 == [s EXCEPT !.g_rx_payload_len = len,
                        !.g_rx_checksum_calculated = Xor8(@, byte)]
    IN IF len > ARESPLOT_SHARED_BUFFER_SIZE
         THEN [s1 EXCEPT !.g_rx_state = ARES_RX_STATE_WAIT_SOP]
       ELSE IF len = 0
         THEN [s1 EXCEPT !.g_rx_state = ARES_RX_STATE_WAIT_CHECKSUM]
       ELSE [s1 EXCEPT !.g_rx_payload_idx = 0,
                       !.g_rx_state = ARES_RX_STATE_WAIT_PAYLOAD]

\* case ARES_RX_STATE_WAIT_PAYLOAD
RxWaitPayload(s, byte) ==
    LET s1 == [s EXCEPT !.g_rx_payload_buffer[s.g_rx_payload_idx] = byte,
                        !.g_rx_payload_idx = @ + 1,
                        !.g_rx_checksum_calculated = Xor8(@, byte)]
    IN IF s1.g_rx_payload_idx >= s1.g_rx_payload_len
         THEN [s1 EXCEPT !.g_rx_state = ARES_RX_STATE_WAIT_CHECKSUM]
         ELSE s1

\* mutant: the top bit of the checksum is not compared
RxWaitChecksum_low7(s, byte) ==
    IF byte % 128 = s.g_rx_checksum_calculated % 128
      THEN [s EXCEPT !.g_rx_state = ARES_RX_STATE_WAIT_EOP]
      ELSE [queue_ack_response(s, s.g_rx_cmd, ARES_STATUS_ERROR_CHECKSUM)
              EXCEPT !.g_rx_state = ARES_RX_STATE_WAIT_SOP]

\* mutant: after a mismatch the receiver goes on waiting for the checksum
RxWaitChecksum_no_resync(s, byte) ==
    IF byte = s.g_rx_checksum_calculated
      THEN [s EXCEPT !.g_rx_state = ARES_RX_STATE_WAIT_EOP]
      ELSE queue_ack_response(s, s.g_rx_cmd, ARES_STATUS_ERROR_CHECKSUM)

\* case ARES_RX_STATE_WAIT_CHECKSUM
RxWaitChecksum(s, byte) ==
    IF byte = s.g_rx_checksum_calculated
      THEN [s EXCEPT !.g_rx_state = ARES_RX_STATE_WAIT_EOP]
      ELSE [queue_ack_response(s, s.g_rx_cmd, ARES_STATUS_ERROR_CHECKSUM)
              EXCEPT !.g_rx_state = ARES_RX_STATE_WAIT_SOP]

\* mutant: the frame is dispatched whatever the last byte is
RxWaitEop_any(s, byte, now, ub) ==
    [process_received_frame(s, now, ub) EXCEPT !.g_rx_state = ARES_RX_STATE_WAIT_SOP]

\* case ARES_RX_STATE_WAIT_EOP
RxWaitEop(s, byte, now, ub) ==
    [(IF byte = ARESPLOT_EOP THEN process_received_frame(s, now, ub) ELSE s)
       EXCEPT !.g_rx_state = ARES_RX_STATE_WAIT_SOP]

aresplot_rx_feed_byte(s, byte, now, ub) ==
    CASE s.g_rx_state = ARES_RX_STATE_WAIT_SOP -> RxWaitSop(s, byte)
      [] s.g_rx_state = ARES_RX_STATE_WAIT_CMD -> RxWaitCmd(s, byte)
      [] s.g_rx_state = ARES_RX_STATE_WAIT_LEN1 -> RxWaitLen1(s, byte)
      [] s.g_rx_state = ARES_RX_STATE_WAIT_LEN2 -> RxWaitLen2(s, byte)
      [] s.g_rx_state = ARES_RX_STATE_WAIT_PAYLOAD -> RxWaitPayload(s, byte)
      [] s.g_rx_state = ARES_RX_STATE_WAIT_CHECKSUM -> RxWaitChecksum(s, byte)
      [] s.g_rx_state = ARES_RX_STATE_WAIT_EOP -> RxWaitEop(s, byte, now, ub)
      [] OTHER -> [s EXCEPT !.g_rx_state = ARES_RX_STATE_WAIT_SOP]

\* ------------------------------------------------------------------------
\* Monitor data
\* ------------------------------------------------------------------------
FloatZeroBytes == <<0, 0, 0, 0>>
FloatOneBytes == <<0, 0, 128, 63>>

\* the float sent for one monitored variable: the switch on its type
MonitorValueBytes(m, v, u) ==
    IF v.ptr = U32Zero THEN FloatZeroBytes
    ELSE CASE v.type \in {ARES_TYPE_INT8, ARES_TYPE_UINT8, ARES_TYPE_INT16,
                          ARES_TYPE_UINT16, ARES_TYPE_INT32, ARES_TYPE_UINT32} ->
                LET x == BytesToInt(MemRead(m, v.ptr, TypeWidth(v.type), u),
                                    TypeSigned(v.type))
                IN IntToFloatBytes(x.neg, x.mag)
           [] v.type = ARES_TYPE_FLOAT32 -> MemRead(m, v.ptr, 4, u)
           [] v.type = ARES_TYPE_BOOL ->
                IF MemRead(m, v.ptr, 1, u)[1] # 0 THEN FloatOneBytes ELSE FloatZeroBytes
           [] OTHER -> FloatZeroBytes

RECURSIVE MonitorValues(_, _, _, _, _)
MonitorValues(m, local_monitor_vars, i, n, u) ==
    IF i >= n THEN <<>>
    ELSE MonitorValueBytes(m, local_monitor_vars[i], u)
           \o MonitorValues(m, local_monitor_vars, i + 1, n, u)

\* the variable is read through its pointer: not NULL, and a type with a case
MonitorLoads(v) ==
    v.ptr # U32Zero /\ v.type \in SetVariableTypes

\* the loads of the loop over the snapshot, noted in order
RECURSIVE NotedLoads(_, _, _, _)
NotedLoads(s, local_monitor_vars, i, n) ==
    IF i >= n THEN s
    ELSE NotedLoads(IF MonitorLoads(local_monitor_vars[i]) THEN Noted(s, "load") ELSE s,
                    local_monitor_vars, i + 1, n)

\* mutant: *out_payload_len counts one byte for each variable
send_monitor_data_payload_assembly_short(s, now, u) ==
    LET s1 == aresplot_user_critical_enter(s)
    IN IF s1.g_monitoring_active = 0 \/ s1.g_num_monitor_vars = 0
         THEN [st |-> aresplot_user_critical_exit(s1), payload |-> <<>>,
               len |-> 0, n |-> 0]
         ELSE
         LET current_num_vars == s1.g_num_monitor_vars
             local_monitor_vars == s1.g_monitor_vars
             s2 == aresplot_user_critical_exit(s1)
             out == U32Bytes(now)
                      \o MonitorValues(s2.mem, local_monitor_vars, 0, current_num_vars, u)
         IN [st |-> NotedLoads(s2, local_monitor_vars, 0, current_num_vars),
             payload |-> out,
             len |-> (4 + current_num_vars) % 65536, n |-> current_num_vars]

\* The payload and *out_payload_len.  The snapshot (count and entries) is
\* taken inside the critical section; timestamp and values are read after it.
send_monitor_data_payload_assembly(s, now, u) ==
    LET s1 == aresplot_user_critical_enter(s)
    IN IF s1.g_monitoring_active = 0 \/ s1.g_num_monitor_vars = 0
         THEN [st |-> aresplot_user_critical_exit(s1), payload |-> <<>>,
               len |-> 0, n |-> 0]
         ELSE
         LET current_num_vars == s1.g_num_monitor_vars
             local_monitor_vars == s1.g_monitor_vars
             s2 == aresplot_user_critical_exit(s1)
             timestamp == now
             out == U32Bytes(timestamp)
                      \o MonitorValues(s2.mem, local_monitor_vars, 0, current_num_vars, u)
         IN [st |-> NotedLoads(s2, local_monitor_vars, 0, current_num_vars),
             payload |-> out,
             len |-> (4 + current_num_vars * 4) % 65536, n |-> current_num_vars]

\* ------------------------------------------------------------------------
\* The periodic service
\* ------------------------------------------------------------------------
\* mutant: no branch for a tick that has wrapped below the last sample time
TimeDiff_no_wrap(current_time_ms, last_sample) ==
    IF Ge32(current_time_ms, last_sample)
      THEN Sub32(current_time_ms, last_sample)
      ELSE U32Zero

\* time_diff of the service invocation
TimeDiff(current_time_ms, last_sample) ==
    IF Ge32(current_time_ms, last_sample)
      THEN Sub32(current_time_ms, last_sample)
      ELSE Add32(Add32(Sub32(U32Max, last_sample), current_time_ms), U32(1))

SampleDue(time_diff, sample_period) == Ge32(time_diff, sample_period)

IdleTick ==
    [drained |-> FALSE, acks |-> <<>>, checked |-> FALSE,
     cur |-> U32Zero, last |-> U32Zero, period |-> U32Zero, diff |-> U32Zero,
     due |-> FALSE, n |-> 0, cs_at_send |-> 0, pkts |-> <<>>, ops |-> <<>>]

\* the acknowledgement in the slot was queued by the start-monitor handler
\* for a frame that left monitoring inactive: the handler's enqueue is the
\* last since the slot was drained, so the frame is the one dispatched last
RefusalQueued(s) ==
    /\ s.obs_acks # <<>> /\ s.obs_dispatch # <<>>
    /\ s.obs_acks[Len(s.obs_acks)].cmd = ARESPLOT_CMD_START_MONITOR
    /\ s.obs_acks[Len(s.obs_acks)].status # ARES_STATUS_ERROR_CHECKSUM
    /\ s.obs_dispatch[Len(s.obs_dispatch)].cmd = ARESPLOT_CMD_START_MONITOR
    /\ StartMonitorBranch(s.obs_dispatch[Len(s.obs_dispatch)].buf0,
                          s.obs_dispatch[Len(s.obs_dispatch)].len) # "install"

\* step 1: drain the acknowledgement slot and send the acknowledgement frame
ServiceAck(s) ==
    LET s1 == aresplot_user_critical_enter(s)
        process_ack == s1.g_ack_pending # 0
        ack_cmd_to_process == s1.g_ack_cmd_to_ack
        status_to_process == s1.g_ack_status_to_send
        s2 == IF process_ack
                THEN [s1 EXCEPT !.g_ack_pending = 0,
                                !.obs_tick.drained = TRUE,
                                !.obs_tick.acks = s1.obs_acks,
                                !.obs_acks = <<>>,
                                !.obs_quiet = @ \/ RefusalQueued(s1)]
                ELSE s1
        s3 == aresplot_user_critical_exit(s2)
    IN IF process_ack
         THEN assemble_and_send_frame_internal(
                  s3, ARESPLOT_CMD_ACK, <<ack_cmd_to_process, status_to_process>>)
         ELSE s3

\* t is s after the call that sends monitor data: if a packet was handed to
\* the transport, the tick the invocation had read is noted
Fired(s, t, current_time_ms) ==
    IF Len(t.obs_tick.pkts) > Len(s.obs_tick.pkts)
      THEN [t EXCEPT !.obs_fire = [any |-> TRUE, cur |-> current_time_ms]]
      ELSE t

\* mutant: the last sample time advances by one period, not to the tick read
ServiceSample_catch_up(s, now, u) ==
    IF ~(s.g_monitoring_active # 0 /\ s.g_num_monitor_vars > 0) THEN s
    ELSE
    LET current_time_ms == now
        s1 == aresplot_user_critical_enter(s)
        last_sample == s1.g_last_sample_time_ms
        sample_period == s1.g_sample_period_ms
        s2 == aresplot_user_critical_exit(s1)
        time_diff == TimeDiff(current_time_ms, last_sample)
        s3 == [s2 EXCEPT !.obs_tick.checked = TRUE,
                         !.obs_tick.cur = current_time_ms,
                         !.obs_tick.last = last_sample,
                         !.obs_tick.period = sample_period,
                         !.obs_tick.diff = time_diff,
                         !.obs_tick.due = SampleDue(time_diff, sample_period)]
    IN IF ~SampleDue(time_diff, sample_period) THEN s3
       ELSE
       LET a == send_monitor_data_payload_assembly(s3, now, u)
           s4 == [a.st EXCEPT !.obs_tick.n = a.n]
           s5 == IF a.len > 0
                   THEN Fired(s4, assemble_and_send_frame_internal(
                                      s4, ARESPLOT_CMD_MONITOR_DATA,
                                      SubSeq(a.payload, 1, a.len)),
                              current_time_ms)
                   ELSE s4
           s6 == aresplot_user_critical_enter(s5)
           s7 == [s6 EXCEPT !.g_last_sample_time_ms = Add32(last_sample, sample_period)]
       IN aresplot_user_critical_exit(s7)

\* step 3: sample if monitoring is on and a sample is due
ServiceSample(s, now, u) ==
    IF ~(s.g_monitoring_active # 0 /\ s.g_num_monitor_vars > 0) THEN s
    ELSE
    LET current_time_ms == now
        s1 == aresplot_user_critical_enter(s)
        last_sample == s1.g_last_sample_time_ms
        sample_period == s1.g_sample_period_ms
        s2 == aresplot_user_critical_exit(s1)
        time_diff == TimeDiff(current_time_ms, last_sample)
        s3 == [s2 EXCEPT !.obs_tick.checked = TRUE,
                         !.obs_tick.cur = current_time_ms,
                         !.obs_tick.last = last_sample,
                         !.obs_tick.period = sample_period,
                         !.obs_tick.diff = time_diff,
                         !.obs_tick.due = SampleDue(time_diff, sample_period)]
    IN IF ~SampleDue(time_diff, sample_period) THEN s3
       ELSE
       LET a == send_monitor_data_payload_assembly(s3, now, u)
           s4 == [a.st EXCEPT !.obs_tick.n = a.n]
           s5 == IF a.len > 0
                   THEN Fired(s4, assemble_and_send_frame_internal(
                                      s4, ARESPLOT_CMD_MONITOR_DATA,
                                      SubSeq(a.payload, 1, a.len)),
                              current_time_ms)
                   ELSE s4
           s6 == aresplot_user_critical_enter(s5)
           s7 == [s6 EXCEPT !.g_last_sample_time_ms = current_time_ms]
       IN aresplot_user_critical_exit(s7)

\* mutant: the sample is taken before the acknowledgement slot is drained
aresplot_service_tick_sample_first(s, now, u) ==
    ServiceAck(ServiceSample([s EXCEPT !.obs_tick = IdleTick], now, u))

aresplot_service_tick(s, now, u) ==
    ServiceSample(ServiceAck([s EXCEPT !.obs_tick = IdleTick]), now, u)

\* ------------------------------------------------------------------------
\* Initial state: zeroed statics, then aresplot_init
\* ------------------------------------------------------------------------
\* the locals of aresplot_service_tick and of the assembly it calls, before
\* the invocation has assigned them
SvcLocals ==
    [current_time_ms |-> U32Zero,
     ack_cmd_to_process |-> 0,
     status_to_process |-> ARES_STATUS_OK,
     process_ack |-> 0,
     last_sample |-> U32Zero,
     sample_period |-> U32Zero,
     time_diff |-> U32Zero,
     current_num_vars |-> 0,
     local_monitor_vars |-> [i \in 0..(ARESPLOT_MAX_VARS_TO_MONITOR - 1) |->
                                [ptr |-> U32Zero, type |-> 0]],
     timestamp |-> U32Zero,
     i |-> 0,
     out_payload_buffer |-> <<>>,
     monitor_data_payload_len |-> 0,
     dispatched_at_entry |-> 0]

ZeroStatics ==
    [g_rx_state |-> ARES_RX_STATE_WAIT_SOP,
     g_rx_payload_buffer |-> [i \in 0..(ARESPLOT_SHARED_BUFFER_SIZE - 1) |-> 0],
     g_rx_payload_len |-> 0,
     g_rx_payload_idx |-> 0,
     g_rx_cmd |-> 0,
     g_rx_checksum_calculated |-> 0,
     g_monitor_vars |-> [i \in 0..(ARESPLOT_MAX_VARS_TO_MONITOR - 1) |->
                            [ptr |-> U32Zero, type |-> 0]],
     g_num_monitor_vars |-> 0,
     g_monitoring_active |-> 0,
     g_sample_period_ms |-> U32Zero,
     g_last_sample_time_ms |-> U32Zero,
     g_tx_assembly_buffer |-> [i \in 0..(ARESPLOT_SHARED_BUFFER_SIZE - 1) |-> 0],
     g_ack_pending |-> 0,
     g_ack_cmd_to_ack |-> 0,
     g_ack_status_to_send |-> 0,
     mem |-> MemInit,
     cs_depth |-> 0,
     svc_pc |-> "idle",
     svc |-> SvcLocals,
     obs_fire |-> [any |-> FALSE, cur |-> U32Zero],
     obs_quiet |-> FALSE,
     obs_dispatch |-> <<>>,
     obs_acks |-> <<>>,
     obs_tick |-> IdleTick]

aresplot_init(s) ==
    [s EXCEPT !.g_rx_state = ARES_RX_STATE_WAIT_SOP,
              !.g_num_monitor_vars = 0,
              !.g_monitoring_active = 0,
              !.g_sample_period_ms = U32(ARESPLOT_DEFAULT_SAMPLE_PERIOD_MS),
              !.g_last_sample_time_ms = U32Zero,
              !.g_ack_pending = 0]

\* ------------------------------------------------------------------------
\* The periodic service, statement by statement.  The ingress context may
\* run between two of these steps unless a critical section is open; a
\* section the ingress cannot observe half-done is one step, and the section
\* of the snapshot, which reads the count and then copies the entries, is two.
\* ------------------------------------------------------------------------
\* return from aresplot_service_tick: its locals are gone
TickReturn(s) == [s EXCEPT !.svc_pc = "idle", !.svc = SvcLocals]

\* entry: the locals are initialised
TickEnter(s) ==
    [s EXCEPT !.svc_pc = "ack_cs",
              !.svc = [SvcLocals EXCEPT !.dispatched_at_entry = Len(s.obs_dispatch)]]

\* mutant: the pending flag is left set
TickAckSection_keeps_pending(s) ==
    LET s1 == aresplot_user_critical_enter(s)
        s2 == IF s1.g_ack_pending # 0
                THEN [s1 EXCEPT !.svc.ack_cmd_to_process = s1.g_ack_cmd_to_ack,
                                !.svc.status_to_process = s1.g_ack_status_to_send,
                                !.svc.process_ack = 1,
                                !.obs_tick.drained = TRUE,
                                !.obs_tick.acks = s1.obs_acks,
                                !.obs_acks = <<>>,
                                !.obs_quiet = @ \/ RefusalQueued(s1)]
                ELSE s1
        s3 == aresplot_user_critical_exit(s2)
    IN [s3 EXCEPT !.svc_pc = IF s3.svc.process_ack # 0 THEN "ack_send" ELSE "check"]

\* mutant: no section; the command id is read in one step and the status,
\* with the clearing of the flag, in the next
TickAckSection_torn(s) ==
    IF s.svc.process_ack = 0 /\ s.g_ack_pending # 0
      THEN [s EXCEPT !.svc.ack_cmd_to_process = s.g_ack_cmd_to_ack,
                     !.svc.process_ack = 2]
    ELSE IF s.svc.process_ack = 2
      THEN [s EXCEPT !.svc.status_to_process = s.g_ack_status_to_send,
                     !.svc.process_ack = 1,
                     !.g_ack_pending = 0,
                     !.obs_tick.drained = TRUE,
                     !.obs_tick.acks = s.obs_acks,
                     !.obs_acks = <<>>,
                     !.obs_quiet = @ \/ RefusalQueued(s),
                     !.svc_pc = "ack_send"]
    ELSE [s EXCEPT !.svc_pc = "check"]

\* the section that takes the pending acknowledgement out of the slot
TickAckSection(s) ==
    LET s1 == aresplot_user_critical_enter(s)
        s2 == IF s1.g_ack_pending # 0
                THEN [s1 EXCEPT !.svc.ack_cmd_to_process = s1.g_ack_cmd_to_ack,
                                !.svc.status_to_process = s1.g_ack_status_to_send,
                                !.svc.process_ack = 1,
                                !.g_ack_pending = 0,
                                !.obs_tick.drained = TRUE,
                                !.obs_tick.acks = s1.obs_acks,
                                !.obs_acks = <<>>,
                                !.obs_quiet = @ \/ RefusalQueued(s1)]
                ELSE s1
        s3 == aresplot_user_critical_exit(s2)
    IN [s3 EXCEPT !.svc_pc = IF s3.svc.process_ack # 0 THEN "ack_send" ELSE "check"]

\* if (process_ack): the acknowledgement frame is assembled and sent
TickAckSend(s) ==
    [assemble_and_send_frame_internal(
         s, ARESPLOT_CMD_ACK, <<s.svc.ack_cmd_to_process, s.svc.status_to_process>>)
       EXCEPT !.svc_pc = "check"]

\* if (g_monitoring_active && g_num_monitor_vars > 0), read with no section
TickCheck(s) ==
    IF s.g_monitoring_active # 0 /\ s.g_num_monitor_vars > 0
      THEN [s EXCEPT !.svc_pc = "tick"]
      ELSE TickReturn(s)

\* current_time_ms = aresplot_user_get_tick_ms()
TickReadTime(s, now) ==
    [s EXCEPT !.svc.current_time_ms = now, !.svc_pc = "sample_cs"]

\* the section that reads the sample clock, then time_diff and the due test
TickSampleSection(s) ==
    LET s1 == aresplot_user_critical_enter(s)
        last_sample == s1.g_last_sample_time_ms
        sample_period == s1.g_sample_period_ms
        s2 == aresplot_user_critical_exit(s1)
        time_diff == TimeDiff(s.svc.current_time_ms, last_sample)
        s3 == [s2 EXCEPT !.svc.last_sample = last_sample,
                         !.svc.sample_period = sample_period,
                         !.svc.time_diff = time_diff,
                         !.obs_tick.checked = TRUE,
                         !.obs_tick.cur = s.svc.current_time_ms,
                         !.obs_tick.last = last_sample,
                         !.obs_tick.period = sample_period,
                         !.obs_tick.diff = time_diff,
                         !.obs_tick.due = SampleDue(time_diff, sample_period)]
    IN IF SampleDue(time_diff, sample_period)
         THEN [s3 EXCEPT !.svc_pc = "snap_enter"]
         ELSE TickReturn(s3)

\* send_monitor_data_payload_assembly: the section is entered, monitoring is
\* checked again and the count is read
TickSnapEnter(s) ==
    LET s1 == aresplot_user_critical_enter(s)
    IN IF s1.g_monitoring_active = 0 \/ s1.g_num_monitor_vars = 0
         THEN [aresplot_user_critical_exit(s1) EXCEPT
                  !.svc.monitor_data_payload_len = 0,
                  !.svc_pc = "mark_cs"]
         ELSE [s1 EXCEPT !.svc.current_num_vars = s1.g_num_monitor_vars,
                         !.svc_pc = "snap_copy"]

\* mutant: the section of the snapshot is not left
TickSnapCopy_keeps_section(s) ==
    [s EXCEPT !.svc.local_monitor_vars =
                  [i \in 0..(ARESPLOT_MAX_VARS_TO_MONITOR - 1) |->
                      IF i < s.svc.current_num_vars THEN s.g_monitor_vars[i] ELSE @[i]],
              !.svc_pc = "stamp"]

\* the entries are copied and the section is left
TickSnapCopy(s) ==
    LET s1 == [s EXCEPT !.svc.local_monitor_vars =
                  [i \in 0..(ARESPLOT_MAX_VARS_TO_MONITOR - 1) |->
                      IF i < s.svc.current_num_vars THEN s.g_monitor_vars[i] ELSE @[i]]]
    IN [aresplot_user_critical_exit(s1) EXCEPT !.svc_pc = "stamp"]

\* timestamp = aresplot_user_get_tick_ms(), and its four bytes
TickStamp(s, now) ==
    [s EXCEPT !.svc.timestamp = now,
              !.svc.out_payload_buffer = U32Bytes(now),
              !.svc.i = 0,
              !.svc_pc = "load"]

\* one round of the loop over the snapshot: variable i is read and converted;
\* after the last round *out_payload_len is set
TickLoad(s, u) ==
    LET v == s.svc.local_monitor_vars[s.svc.i]
        s1 == IF MonitorLoads(v) THEN Noted(s, "load") ELSE s
        s2 == [s1 EXCEPT !.svc.out_payload_buffer = @ \o MonitorValueBytes(s.mem, v, u),
                         !.svc.i = @ + 1]
    IN IF s2.svc.i < s2.svc.current_num_vars THEN s2
       ELSE [s2 EXCEPT !.svc.monitor_data_payload_len =
                          (4 + s2.svc.current_num_vars * 4) % 65536,
                       !.svc_pc = "data_send"]

\* if (monitor_data_payload_len > 0): the monitor-data frame is sent
TickDataSend(s) ==
    [(IF s.svc.monitor_data_payload_len > 0
        THEN Fired(s, assemble_and_send_frame_internal(
                          s, ARESPLOT_CMD_MONITOR_DATA,
                          SubSeq(s.svc.out_payload_buffer, 1,
                                 s.svc.monitor_data_payload_len)),
                   s.svc.current_time_ms)
        ELSE s)
       EXCEPT !.obs_tick.n = s.svc.current_num_vars, !.svc_pc = "mark_cs"]

\* the section that sets the last sample time; the invocation returns
TickMarkSection(s) ==
    LET s1 == aresplot_user_critical_enter(s)
        s2 == [s1 EXCEPT !.g_last_sample_time_ms = s.svc.current_time_ms]
    IN TickReturn(aresplot_user_critical_exit(s2))

\* ------------------------------------------------------------------------
\* The host: the frames it may put on the wire
\* ------------------------------------------------------------------------
\* a payload of len bytes: seed, seed + 37, seed + 74, ... (mod 256)
Pattern(len, seed) == [k \in 1..len |-> (seed + 37 * (k - 1)) % 256]

\* what the host sends: the frame it meant (cmd, payload) and the bytes on the wire
HostFrame(kind, cmd, payload, bytes) ==
    [kind |-> kind, cmd |-> cmd, payload |-> payload, bytes |-> bytes]

\* a well-formed frame, built as frame assembly builds it
Valid(cmd, payload) == HostFrame("valid", cmd, payload, FrameBytes(cmd, payload))

\* bit k of payload byte i (1-based) inverted on the wire
FlipBit(cmd, payload, i, k) ==
    HostFrame("flip", cmd, payload,
              [FrameBytes(cmd, payload) EXCEPT ![4 + i] = Xor8(@, Pow2(k))])

\* the checksum byte xor-ed with x # 0
BadSum(cmd, payload, x) ==
    HostFrame("badsum", cmd, payload,
              [FrameBytes(cmd, payload) EXCEPT ![5 + Len(payload)] = Xor8(@, x)])

\* the end marker replaced by e # EOP
BadEop(cmd, payload, e) ==
    HostFrame("badeop", cmd, payload,
              [FrameBytes(cmd, payload) EXCEPT ![6 + Len(payload)] = e])

\* a header announcing len > capacity, followed by the bytes rest
Oversize(cmd, len, rest) ==
    HostFrame("oversize", cmd, <<>>,
              <<ARESPLOT_SOP, cmd, len % 256, len \div 256>> \o rest)

\* payload entry of a start-monitor frame: 4-byte address, 1-byte type
VarEntry(addr, type) == U32Bytes(addr) \o <<type>>

RECURSIVE Concat(_)
Concat(ss) == IF ss = <<>> THEN <<>> ELSE Head(ss) \o Concat(Tail(ss))

\* a start-monitor payload declaring count and carrying the entries es
StartPayload(count, es) == <<count>> \o Concat(es)

\* n entries: bytes, halfwords and words of the watched window, then NULL
EntryNo(i) ==
    CASE i = 1 -> VarEntry(MemAddr(0), ARES_TYPE_UINT8)
      [] i = 2 -> VarEntry(MemAddr(4), ARES_TYPE_INT32)
      [] i = 3 -> VarEntry(MemAddr(2), ARES_TYPE_INT16)
      [] i = 4 -> VarEntry(U32Zero, ARES_TYPE_FLOAT32)
      [] i = 5 -> VarEntry(MemAddr(0), ARES_TYPE_FLOAT64)
      [] i = 6 -> VarEntry(MemAddr(1), ARES_TYPE_BOOL)
      [] i = 7 -> VarEntry(MemAddr(4), ARES_TYPE_FLOAT32)
      [] i = 8 -> VarEntry(MemAddr(0), ARES_TYPE_INT8)
      [] i = 9 -> VarEntry(MemAddr(4), ARES_TYPE_UINT32)
      [] i = 10 -> VarEntry(MemAddr(2), ARES_TYPE_UINT16)
      [] OTHER -> VarEntry(MemAddr(0), ARES_TYPE_UINT8)
Entries(n) == [i \in 1..n |-> EntryNo(i)]
EntriesFrom(k, n) == [i \in 1..n |-> EntryNo(k + i - 1)]

\* a set-variable payload
SetPayload(addr, type, fb) == U32Bytes(addr) \o <<type>> \o fb

\* a set-sample-rate payload
RatePayload(rate_hz) == U32Bytes(rate_hz)

\* ------------------------------------------------------------------------
\* Actions
\* ------------------------------------------------------------------------
\* 32-bit patterns a float-to-integer conversion of an unrepresentable value
\* may leave
UBVals == {U32Zero, U32Max}
\* bytes an unwatched address may hold
UnknownBytes == {0, 255}

InitProgram ==
    LET n == aresplot_init(ZeroStatics)
    IN  /\ g_rx_state = n.g_rx_state
        /\ g_rx_payload_buffer = n.g_rx_payload_buffer
        /\ g_rx_payload_len = n.g_rx_payload_len
        /\ g_rx_payload_idx = n.g_rx_payload_idx
        /\ g_rx_cmd = n.g_rx_cmd
        /\ g_rx_checksum_calculated = n.g_rx_checksum_calculated
        /\ g_monitor_vars = n.g_monitor_vars
        /\ g_num_monitor_vars = n.g_num_monitor_vars
        /\ g_monitoring_active = n.g_monitoring_active
        /\ g_sample_period_ms = n.g_sample_period_ms
        /\ g_last_sample_time_ms = n.g_last_sample_time_ms
        /\ g_tx_assembly_buffer = n.g_tx_assembly_buffer
        /\ g_ack_pending = n.g_ack_pending
        /\ g_ack_cmd_to_ack = n.g_ack_cmd_to_ack
        /\ g_ack_status_to_send = n.g_ack_status_to_send
        /\ mem = n.mem
        /\ cs_depth = n.cs_depth
        /\ svc_pc = n.svc_pc
        /\ svc = n.svc
        /\ obs_fire = n.obs_fire
        /\ obs_quiet = n.obs_quiet
        /\ obs_dispatch = n.obs_dispatch
        /\ obs_acks = n.obs_acks
        /\ obs_tick = n.obs_tick

\* the state after aresplot_init, the tick being one of ticks
InitAt(ticks) ==
    /\ InitProgram
    /\ tick \in ticks
    /\ wire = <<>>
    /\ hostLog = <<>>
    /\ advances = 0

\* the host puts frame f on the wire
HostSend(f) ==
    /\ wire = <<>>
    /\ Len(hostLog) < MaxFrames
    /\ wire' = f.bytes
    /\ hostLog' = Append(hostLog, f @@
                          [rx_at_send |-> g_rx_state,
                           dispatched_at_send |-> Len(obs_dispatch),
                           acks_at_send |-> Len(obs_acks)])
    /\ obs_tick' = IdleTick
    /\ UNCHANGED <<progVars, tick, advances>>

\* the ingress context feeds the next received byte: aresplot_rx_feed_byte
RxFeedByte ==
    /\ wire # <<>>
    /\ \E ub \in UBVals :
          Becomes(aresplot_rx_feed_byte([State EXCEPT !.obs_tick = IdleTick],
                                        Head(wire), tick, ub))
    /\ wire' = Tail(wire)
    /\ UNCHANGED <<tick, hostLog, advances>>

\* the service context runs one invocation: aresplot_service_tick
ServiceTick ==
    /\ \E u \in UnknownBytes : Becomes(aresplot_service_tick(State, tick, u))
    /\ UNCHANGED <<tick, wire, hostLog, advances>>

\* the millisecond tick advances by d
Advance(d) ==
    /\ advances < MaxAdvance
    /\ tick' = Add32(tick, U32(d))
    /\ advances' = advances + 1
    /\ obs_tick' = IdleTick
    /\ UNCHANGED <<progVars, wire, hostLog>>

\* the program's state as a step of a context finds it: nothing observed yet
Quiet == [State EXCEPT !.obs_tick = IdleTick]

\* the service context takes the step whose result is n
ServiceStep(pc, n) ==
    /\ svc_pc = pc
    /\ Becomes(n)
    /\ UNCHANGED <<tick, wire, hostLog, advances>>

StepEnter == ServiceStep("idle", TickEnter(Quiet))
StepAckSection == ServiceStep("ack_cs", TickAckSection(Quiet))
StepAckSend == ServiceStep("ack_send", TickAckSend(Quiet))
StepCheck == ServiceStep("check", TickCheck(Quiet))
StepReadTime == ServiceStep("tick", TickReadTime(Quiet, tick))
StepSampleSection == ServiceStep("sample_cs", TickSampleSection(Quiet))
StepSnapEnter == ServiceStep("snap_enter", TickSnapEnter(Quiet))
StepSnapCopy == ServiceStep("snap_copy", TickSnapCopy(Quiet))
StepStamp == ServiceStep("stamp", TickStamp(Quiet, tick))
StepLoad == \E u \in UnknownBytes : ServiceStep("load", TickLoad(Quiet, u))
StepDataSend == ServiceStep("data_send", TickDataSend(Quiet))
StepMarkSection == ServiceStep("mark_cs", TickMarkSection(Quiet))

\* the ingress context preempts the service: a whole aresplot_rx_feed_byte,
\* unless the service is inside a critical section
IngressFeedByte ==
    /\ ~(cs_depth > 0)
    /\ RxFeedByte

\* ------------------------------------------------------------------------
\* Specifications: the same program under different host traffic
\* ------------------------------------------------------------------------
\* tick values at start-up: zero, and six below the wrap
TickInit == {U32Zero, <<65535, 65530>>}

\* framing traffic: well-formed frames of several commands and lengths, and
\* the same frames damaged on the wire
FramesValid ==
    {Valid(ARESPLOT_CMD_START_MONITOR, <<>>),
     Valid(ARESPLOT_CMD_START_MONITOR, Pattern(6, 1)),
     Valid(ARESPLOT_CMD_SET_VARIABLE, Pattern(9, 0)),
     Valid(ARESPLOT_CMD_SET_SAMPLE_RATE, Pattern(4, 100)),
     Valid(ARESPLOT_SOP, Pattern(1, ARESPLOT_SOP)),
     Valid(ARESPLOT_EOP, Pattern(2, ARESPLOT_EOP)),
     Valid(255, Pattern(ARESPLOT_SHARED_BUFFER_SIZE - 6, 3)),
     Valid(0, Pattern(51, 10))}

FramesDamaged ==
    {FlipBit(ARESPLOT_CMD_SET_SAMPLE_RATE, Pattern(4, 100), 1, 0),
     FlipBit(ARESPLOT_CMD_START_MONITOR, Pattern(6, 1), 3, 4),
     FlipBit(255, Pattern(ARESPLOT_SHARED_BUFFER_SIZE - 6, 3),
             ARESPLOT_SHARED_BUFFER_SIZE - 6, 7),
     BadSum(ARESPLOT_CMD_START_MONITOR, <<>>, 1),
     BadSum(ARESPLOT_CMD_SET_VARIABLE, Pattern(9, 0), 255),
     BadSum(ARESPLOT_EOP, Pattern(2, ARESPLOT_EOP), 128)}

Init == InitAt({U32Zero})

Next ==
    \/ \E f \in FramesValid \cup FramesDamaged : HostSend(f)
    \/ RxFeedByte
    \/ ServiceTick
    \/ Advance(16)

Spec == Init /\ [][Next]_vars

\* monitor traffic: start-monitor frames of every shape
MonitorFrames ==
    {Valid(ARESPLOT_CMD_START_MONITOR, <<>>),
     Valid(ARESPLOT_CMD_START_MONITOR, <<0>>),
     Valid(ARESPLOT_CMD_START_MONITOR, <<0, 7, 7>>),
     Valid(ARESPLOT_CMD_START_MONITOR, StartPayload(0, Entries(1))),
     Valid(ARESPLOT_CMD_START_MONITOR, StartPayload(1, Entries(1))),
     Valid(ARESPLOT_CMD_START_MONITOR, StartPayload(1, Entries(2))),
     Valid(ARESPLOT_CMD_START_MONITOR, StartPayload(2, EntriesFrom(2, 2))),
     Valid(ARESPLOT_CMD_START_MONITOR, StartPayload(2, Entries(1))),
     Valid(ARESPLOT_CMD_START_MONITOR,
           StartPayload(ARESPLOT_MAX_VARS_TO_MONITOR, Entries(ARESPLOT_MAX_VARS_TO_MONITOR))),
     Valid(ARESPLOT_CMD_START_MONITOR,
           StartPayload(ARESPLOT_MAX_VARS_TO_MONITOR + 1,
                        Entries(ARESPLOT_MAX_VARS_TO_MONITOR + 1))),
     Valid(ARESPLOT_CMD_START_MONITOR, <<255>>)}

InitMonitor == InitAt(TickInit)

NextMonitor ==
    \/ \E f \in MonitorFrames : HostSend(f)
    \/ RxFeedByte
    \/ ServiceTick
    \/ Advance(16)

SpecMonitor == InitMonitor /\ [][NextMonitor]_vars

\* sampling traffic: one start-monitor frame, a stop, and set-sample-rate
\* frames for rates below, at and above 1000 Hz and of a wrong length
SampleRates ==
    {U32Zero, U32(1), U32(3), U32(200), U32(1000), U32(1001), <<1, 0>>, U32Max}

SampleFrames ==
    {Valid(ARESPLOT_CMD_START_MONITOR, StartPayload(1, Entries(1))),
     Valid(ARESPLOT_CMD_START_MONITOR, <<0>>),
     Valid(ARESPLOT_CMD_SET_SAMPLE_RATE, <<100, 0, 0>>),
     Valid(ARESPLOT_CMD_SET_SAMPLE_RATE, <<0, 0, 0, 0, 0>>)}
    \cup {Valid(ARESPLOT_CMD_SET_SAMPLE_RATE, RatePayload(r)) : r \in SampleRates}

InitSample == InitAt(TickInit)

NextSample ==
    \/ \E f \in SampleFrames : HostSend(f)
    \/ RxFeedByte
    \/ ServiceTick
    \/ Advance(5)
    \/ Advance(16)

SpecSample == InitSample /\ [][NextSample]_vars

\* floats on the wire: 1.0, -1.0 and 300.0
FloatMinusOneBytes == <<0, 0, 128, 191>>
Float300Bytes == <<0, 0, 150, 67>>

\* set-variable traffic: every supported type, three unsupported tags (the
\* 64-bit float tag among them) and two wrong lengths
SetVarFrames ==
    {Valid(ARESPLOT_CMD_SET_VARIABLE, SetPayload(MemAddr(0), ARES_TYPE_INT8, FloatMinusOneBytes)),
     Valid(ARESPLOT_CMD_SET_VARIABLE, SetPayload(MemAddr(1), ARES_TYPE_UINT8, Float300Bytes)),
     Valid(ARESPLOT_CMD_SET_VARIABLE, SetPayload(MemAddr(2), ARES_TYPE_INT16, Float300Bytes)),
     Valid(ARESPLOT_CMD_SET_VARIABLE, SetPayload(MemAddr(6), ARES_TYPE_UINT16, FloatOneBytes)),
     Valid(ARESPLOT_CMD_SET_VARIABLE, SetPayload(MemAddr(4), ARES_TYPE_INT32, FloatMinusOneBytes)),
     Valid(ARESPLOT_CMD_SET_VARIABLE, SetPayload(MemAddr(4), ARES_TYPE_UINT32, Float300Bytes)),
     Valid(ARESPLOT_CMD_SET_VARIABLE, SetPayload(MemAddr(0), ARES_TYPE_FLOAT32, FloatOneBytes)),
     Valid(ARESPLOT_CMD_SET_VARIABLE, SetPayload(MemAddr(3), ARES_TYPE_BOOL, Float300Bytes)),
     Valid(ARESPLOT_CMD_SET_VARIABLE, SetPayload(MemAddr(0), ARES_TYPE_FLOAT64, FloatOneBytes)),
     Valid(ARESPLOT_CMD_SET_VARIABLE, SetPayload(MemAddr(4), 9, Float300Bytes)),
     Valid(ARESPLOT_CMD_SET_VARIABLE, SetPayload(MemAddr(2), 255, FloatMinusOneBytes)),
     Valid(ARESPLOT_CMD_SET_VARIABLE, SubSeq(SetPayload(MemAddr(0), ARES_TYPE_UINT8, FloatOneBytes), 1, 8)),
     Valid(ARESPLOT_CMD_SET_VARIABLE, SetPayload(MemAddr(0), ARES_TYPE_UINT8, FloatOneBytes) \o <<0>>)}

InitSetVar == InitAt({U32Zero})

NextSetVar ==
    \/ \E f \in SetVarFrames : HostSend(f)
    \/ RxFeedByte
    \/ ServiceTick
    \/ Advance(16)

SpecSetVar == InitSetVar /\ [][NextSetVar]_vars

\* traffic for the interleaved contexts: two tables, a stop, a rate and a
\* write to a monitored variable
InterleavedFrames ==
    {Valid(ARESPLOT_CMD_START_MONITOR, StartPayload(1, Entries(1))),
     Valid(ARESPLOT_CMD_START_MONITOR, StartPayload(2, EntriesFrom(2, 2))),
     Valid(ARESPLOT_CMD_START_MONITOR, <<0>>),
     Valid(ARESPLOT_CMD_SET_SAMPLE_RATE, RatePayload(U32(200))),
     Valid(ARESPLOT_CMD_SET_VARIABLE,
           SetPayload(MemAddr(0), ARES_TYPE_UINT8, FloatOneBytes))}

InitInterleaved == InitAt({U32Zero})

NextInterleaved ==
    \/ \E f \in InterleavedFrames : HostSend(f)
    \/ IngressFeedByte
    \/ StepEnter
    \/ StepAckSection
    \/ StepAckSend
    \/ StepCheck
    \/ StepReadTime
    \/ StepSampleSection
    \/ StepSnapEnter
    \/ StepSnapCopy
    \/ StepStamp
    \/ StepLoad
    \/ StepDataSend
    \/ StepMarkSection
    \/ Advance(16)

SpecInterleaved == InitInterleaved /\ [][NextInterleaved]_vars

\* resynchronisation traffic: frames with a wrong end marker, a wrong
\* checksum or a declared length above the capacity, and well-formed frames,
\* one of which fills the payload buffer
ResyncValid ==
    {Valid(ARESPLOT_CMD_START_MONITOR, <<0>>),
     Valid(ARESPLOT_CMD_SET_SAMPLE_RATE, RatePayload(U32(100))),
     Valid(7, Pattern(3, ARESPLOT_EOP)),
     Valid(9, Pattern(ARESPLOT_SHARED_BUFFER_SIZE, 5))}

ResyncDamaged ==
    {BadEop(ARESPLOT_CMD_START_MONITOR, <<0>>, 0),
     BadEop(ARESPLOT_CMD_SET_SAMPLE_RATE, RatePayload(U32(100)), ARESPLOT_EOP + 1),
     BadEop(7, Pattern(3, ARESPLOT_EOP), ARESPLOT_SOP),
     BadSum(ARESPLOT_CMD_START_MONITOR, <<0>>, 1),
     BadSum(7, Pattern(3, ARESPLOT_EOP), 255),
     Oversize(ARESPLOT_CMD_START_MONITOR, ARESPLOT_SHARED_BUFFER_SIZE + 1, <<>>),
     Oversize(7, ARESPLOT_SHARED_BUFFER_SIZE + 1, Pattern(3, 1)),
     Oversize(9, 256, <<1, ARESPLOT_EOP>>),
     Oversize(9, 65535, <<>>)}

InitResync == InitAt({U32Zero})

NextResync ==
    \/ \E f \in ResyncValid \cup ResyncDamaged : HostSend(f)
    \/ RxFeedByte
    \/ ServiceTick
    \/ Advance(16)

SpecResync == InitResync /\ [][NextResync]_vars

\* payload-shape traffic: set-variable and set-sample-rate frames of wrong
\* lengths, and three well-formed frames that change the table, the period
\* and target memory before them
ShapeFrames ==
    {Valid(ARESPLOT_CMD_START_MONITOR, StartPayload(1, Entries(1))),
     Valid(ARESPLOT_CMD_SET_SAMPLE_RATE, RatePayload(U32(200))),
     Valid(ARESPLOT_CMD_SET_VARIABLE, SetPayload(MemAddr(2), ARES_TYPE_INT16, Float300Bytes)),
     Valid(ARESPLOT_CMD_SET_VARIABLE, <<>>),
     Valid(ARESPLOT_CMD_SET_VARIABLE,
           SubSeq(SetPayload(MemAddr(0), ARES_TYPE_UINT8, FloatOneBytes), 1, 8)),
     Valid(ARESPLOT_CMD_SET_VARIABLE,
           SetPayload(MemAddr(0), ARES_TYPE_UINT8, FloatOneBytes) \o <<0>>),
     Valid(ARESPLOT_CMD_SET_VARIABLE, RatePayload(U32(100))),
     Valid(ARESPLOT_CMD_SET_SAMPLE_RATE, <<>>),
     Valid(ARESPLOT_CMD_SET_SAMPLE_RATE, <<100, 0, 0>>),
     Valid(ARESPLOT_CMD_SET_SAMPLE_RATE, RatePayload(U32(100)) \o <<0>>),
     Valid(ARESPLOT_CMD_SET_SAMPLE_RATE,
           SetPayload(MemAddr(0), ARES_TYPE_UINT8, FloatOneBytes))}

InitShape == InitAt({U32Zero})

NextShape ==
    \/ \E f \in ShapeFrames : HostSend(f)
    \/ RxFeedByte
    \/ ServiceTick
    \/ Advance(16)

SpecShape == InitShape /\ [][NextShape]_vars

\* acknowledgement traffic for the interleaved contexts: frames that queue
\* five different {command id, status} pairs, one of which starts monitoring
AckFrames ==
    {Valid(ARESPLOT_CMD_START_MONITOR, StartPayload(1, Entries(1))),
     Valid(ARESPLOT_CMD_START_MONITOR, StartPayload(11, <<>>)),
     Valid(ARESPLOT_CMD_SET_VARIABLE, <<>>),
     Valid(7, Pattern(2, 9)),
     BadSum(ARESPLOT_CMD_SET_SAMPLE_RATE, RatePayload(U32(200)), 1)}

InitAck == InitAt({U32Zero})

\* one statement of the service invocation in progress, or the entry of the
\* next invocation
ServiceSteps ==
    \/ StepEnter
    \/ StepAckSection
    \/ StepAckSend
    \/ StepCheck
    \/ StepReadTime
    \/ StepSampleSection
    \/ StepSnapEnter
    \/ StepSnapCopy
    \/ StepStamp
    \/ StepLoad
    \/ StepDataSend
    \/ StepMarkSection

NextAck ==
    \/ \E f \in AckFrames : HostSend(f)
    \/ IngressFeedByte
    \/ ServiceSteps
    \/ Advance(16)

SpecAck == InitAck /\ [][NextAck]_vars

\* the statements aresplot_service_tick can be at
ServicePoints ==
    {"idle", "ack_cs", "ack_send", "check", "tick", "sample_cs", "snap_enter",
     "snap_copy", "stamp", "load", "data_send", "mark_cs"}

\* the service context moves on to another statement
ServiceMoves == svc_pc' \in ServicePoints /\ svc_pc' # svc_pc

\* the main loop keeps calling aresplot_service_tick, and a call that has
\* started runs on to its return: the service context is never stopped for
\* good.  A statement of the service is enabled in every state and the loop
\* over the snapshot ends after at most ten turns, so this is what weak
\* fairness of ServiceSteps gives.
SpecAckFair == SpecAck /\ WF_svc_pc(ServiceMoves)

\* stop traffic for the interleaved contexts: a start-monitor frame that
\* installs one variable and one that fills the table, and start-monitor
\* frames that leave monitoring inactive: count 0, count above the maximum,
\* and payloads of the wrong length
StopFrames ==
    {Valid(ARESPLOT_CMD_START_MONITOR, StartPayload(1, Entries(1))),
     Valid(ARESPLOT_CMD_START_MONITOR,
           StartPayload(ARESPLOT_MAX_VARS_TO_MONITOR, Entries(ARESPLOT_MAX_VARS_TO_MONITOR))),
     Valid(ARESPLOT_CMD_START_MONITOR, <<0>>),
     Valid(ARESPLOT_CMD_START_MONITOR, <<ARESPLOT_MAX_VARS_TO_MONITOR + 1>>),
     Valid(ARESPLOT_CMD_START_MONITOR, StartPayload(2, Entries(1))),
     Valid(ARESPLOT_CMD_START_MONITOR, <<>>)}

InitStop == InitAt({U32Zero})

NextStop ==
    \/ \E f \in StopFrames : HostSend(f)
    \/ IngressFeedByte
    \/ ServiceSteps
    \/ Advance(16)

SpecStop == InitStop /\ [][NextStop]_vars

\* ------------------------------------------------------------------------
\* Claims
\* ------------------------------------------------------------------------
Last(q) == q[Len(q)]

\* the frame the host sent last
HostLast == Last(hostLog)

\* the packets of p that are frames of command cmd
FramesOf(pkts, cmd) == SelectSeq(pkts, LAMBDA p : p[2] = cmd)

\* C1: a frame built by frame assembly and fed byte by byte to a receiver in
\* AwaitStart is dispatched exactly once, with the command id, payload length
\* and payload bytes it was built from, and the receiver is back in
\* AwaitStart; nothing is dispatched before its last byte is fed.
C1_RoundTrip ==
    (hostLog # <<>> /\ HostLast.kind = "valid"
        /\ HostLast.rx_at_send = ARES_RX_STATE_WAIT_SOP) =>
        IF wire = <<>>
          THEN /\ Len(obs_dispatch) = HostLast.dispatched_at_send + 1
               /\ Last(obs_dispatch).cmd = HostLast.cmd
               /\ Last(obs_dispatch).len = Len(HostLast.payload)
               /\ Last(obs_dispatch).payload = HostLast.payload
               /\ g_rx_state = ARES_RX_STATE_WAIT_SOP
          ELSE Len(obs_dispatch) = HostLast.dispatched_at_send

\* the longest payload frame assembly accepts has made the round trip
C1_Witness ==
    /\ hostLog # <<>> /\ wire = <<>>
    /\ HostLast.kind = "valid"
    /\ Len(HostLast.payload) + 6 = ARESPLOT_SHARED_BUFFER_SIZE
    /\ Len(obs_dispatch) = HostLast.dispatched_at_send + 1
    /\ Last(obs_dispatch).payload = HostLast.payload

\* the xor of the command byte, both length bytes and the payload bytes of the
\* frame being received, taken from the bytes the host put on the wire
WireXor == XorRange(HostLast.bytes, 2, 4 + g_rx_payload_len)

\* the step feeds the next byte of the wire
FeedStep == wire # <<>> /\ wire' = Tail(wire)

\* C2: when the byte received in AwaitChecksum differs from the xor of the
\* frame's command, length and payload bytes, the frame is not dispatched, an
\* acknowledgement {its command id, checksum-error} is queued and the
\* receiver returns to AwaitStart; a frame with one payload bit inverted is
\* such a frame, and it is not dispatched by its end marker either.
C2_Step ==
    /\ (FeedStep /\ g_rx_state = ARES_RX_STATE_WAIT_CHECKSUM
          /\ (Head(wire) # WireXor \/ HostLast.kind = "flip")) =>
          /\ obs_dispatch' = obs_dispatch
          /\ g_ack_pending' = 1
          /\ g_ack_cmd_to_ack' = HostLast.bytes[2]
          /\ g_ack_status_to_send' = ARES_STATUS_ERROR_CHECKSUM
          /\ Len(obs_acks') = Len(obs_acks) + 1
          /\ g_rx_state' = ARES_RX_STATE_WAIT_SOP
    /\ (FeedStep /\ HostLast.kind \in {"flip", "badsum"}) =>
          Len(obs_dispatch') = HostLast.dispatched_at_send

C2_ChecksumReject == [][C2_Step]_vars

\* a frame with one payload bit inverted has been fed to its end: rejected
C2_Witness ==
    /\ hostLog # <<>> /\ wire = <<>>
    /\ HostLast.kind = "flip"
    /\ g_ack_pending = 1
    /\ g_ack_cmd_to_ack = HostLast.cmd
    /\ g_ack_status_to_send = ARES_STATUS_ERROR_CHECKSUM
    /\ Len(obs_dispatch) = HostLast.dispatched_at_send

\* C3: the slot holds at most one acknowledgement, the one queued last; a
\* service invocation that finds it set sends exactly one acknowledgement
\* frame, carrying the {command id, status} queued last, and clears it.
C3_LatestWins ==
    /\ g_ack_pending \in {0, 1}
    /\ (g_ack_pending = 1) <=> (obs_acks # <<>>)
    /\ g_ack_pending = 1 =>
          /\ g_ack_cmd_to_ack = Last(obs_acks).cmd
          /\ g_ack_status_to_send = Last(obs_acks).status
    /\ Len(FramesOf(obs_tick.pkts, ARESPLOT_CMD_ACK)) = (IF obs_tick.drained THEN 1 ELSE 0)
    /\ obs_tick.drained =>
          /\ obs_tick.acks # <<>>
          /\ FramesOf(obs_tick.pkts, ARESPLOT_CMD_ACK) =
                <<FrameBytes(ARESPLOT_CMD_ACK,
                             <<Last(obs_tick.acks).cmd, Last(obs_tick.acks).status>>)>>

\* two different acknowledgements were queued before a service invocation
\* drained the slot
C3_Witness ==
    /\ obs_tick.drained
    /\ Len(obs_tick.acks) >= 2
    /\ obs_tick.acks[1] # obs_tick.acks[2]
    /\ Len(obs_tick.pkts) = 1

\* the step hands a frame to the dispatcher
DispatchStep == FeedStep /\ Len(obs_dispatch') = Len(obs_dispatch) + 1

\* the frame the step dispatches
Dispatched == Last(obs_dispatch')

\* the step appends exactly one acknowledgement {cmd, status} to the queue log
\* and leaves it in the slot
QueuesAck(cmd, status) ==
    /\ Len(obs_acks') = Len(obs_acks) + 1
    /\ Last(obs_acks').cmd = cmd
    /\ Last(obs_acks').status = status
    /\ g_ack_pending' = 1
    /\ g_ack_cmd_to_ack' = cmd
    /\ g_ack_status_to_send' = status

\* C4: a dispatched start-monitor frame whose count byte is 0 queues status
\* OK and leaves monitoring inactive with an empty table, whatever set was
\* installed before and whatever the payload length.
C4_Step ==
    (DispatchStep /\ Dispatched.cmd = ARESPLOT_CMD_START_MONITOR
        /\ Dispatched.buf0 = 0) =>
        /\ QueuesAck(ARESPLOT_CMD_START_MONITOR, ARES_STATUS_OK)
        /\ g_monitoring_active' = 0
        /\ g_num_monitor_vars' = 0

C4_CountZero == [][C4_Step]_vars

\* the frame dispatched last is a start-monitor frame, fed to its end
StartMonitorDone ==
    /\ wire = <<>> /\ Len(hostLog) = 2
    /\ HostLast.kind = "valid"
    /\ HostLast.cmd = ARESPLOT_CMD_START_MONITOR
    /\ Len(obs_dispatch) = 2
    /\ Last(obs_dispatch).payload = HostLast.payload

\* a set of ten variables was installed, then a 6-byte frame with count 0 came
C4_Witness ==
    /\ StartMonitorDone
    /\ obs_dispatch[1].buf0 = ARESPLOT_MAX_VARS_TO_MONITOR
    /\ obs_dispatch[1].len = 1 + ARESPLOT_MAX_VARS_TO_MONITOR * 5
    /\ Last(obs_dispatch).buf0 = 0
    /\ Last(obs_dispatch).len = 6
    /\ g_monitoring_active = 0 /\ g_num_monitor_vars = 0
    /\ g_ack_pending = 1 /\ g_ack_status_to_send = ARES_STATUS_OK

\* C5: a dispatched start-monitor frame whose count byte exceeds the maximum
\* queues busy-or-limit and leaves the table empty and monitoring inactive.
C5_Step ==
    (DispatchStep /\ Dispatched.cmd = ARESPLOT_CMD_START_MONITOR
        /\ Dispatched.buf0 > ARESPLOT_MAX_VARS_TO_MONITOR) =>
        /\ QueuesAck(ARESPLOT_CMD_START_MONITOR, ARES_STATUS_ERROR_MCU_BUSY_OR_LIMIT)
        /\ g_monitoring_active' = 0
        /\ g_num_monitor_vars' = 0

C5_CountOverMax == [][C5_Step]_vars

\* a set was installed, then a frame declaring eleven variables, and carrying
\* eleven, came
C5_Witness ==
    /\ StartMonitorDone
    /\ obs_dispatch[1].buf0 = 2 /\ obs_dispatch[1].len = 11
    /\ Last(obs_dispatch).buf0 = ARESPLOT_MAX_VARS_TO_MONITOR + 1
    /\ Last(obs_dispatch).len = 1 + (ARESPLOT_MAX_VARS_TO_MONITOR + 1) * 5
    /\ g_monitoring_active = 0 /\ g_num_monitor_vars = 0
    /\ g_ack_pending = 1
    /\ g_ack_status_to_send = ARES_STATUS_ERROR_MCU_BUSY_OR_LIMIT

\* entry i (from 0) declared in the start-monitor payload p: its address as
\* a 32-bit little-endian number, and its type byte
DeclaredEntry(p, i) ==
    [ptr |-> <<p[5 * i + 5] * 256 + p[5 * i + 4], p[5 * i + 3] * 256 + p[5 * i + 2]>>,
     type |-> p[5 * i + 6]]

\* C6: for a dispatched start-monitor frame with 1 <= count <= max, a payload
\* of exactly 1 + 5 * count bytes installs the declared entries in order,
\* turns monitoring on, sets the last-sample time to the tick and queues OK;
\* any other length queues invalid-payload and leaves the table empty and
\* monitoring inactive.
C6_Step ==
    (DispatchStep /\ Dispatched.cmd = ARESPLOT_CMD_START_MONITOR
        /\ Dispatched.buf0 >= 1
        /\ Dispatched.buf0 <= ARESPLOT_MAX_VARS_TO_MONITOR) =>
        IF Dispatched.len = 1 + 5 * Dispatched.buf0
          THEN /\ g_num_monitor_vars' = Dispatched.buf0
               /\ \A i \in 0..(Dispatched.buf0 - 1) :
                     g_monitor_vars'[i] = DeclaredEntry(Dispatched.payload, i)
               /\ g_monitoring_active' = 1
               /\ g_last_sample_time_ms' = tick
               /\ QueuesAck(ARESPLOT_CMD_START_MONITOR, ARES_STATUS_OK)
          ELSE /\ g_num_monitor_vars' = 0
               /\ g_monitoring_active' = 0
               /\ QueuesAck(ARESPLOT_CMD_START_MONITOR, ARES_STATUS_ERROR_INVALID_PAYLOAD)

C6_Install == [][C6_Step]_vars

\* a set of ten was replaced by a set of two, at a tick other than zero
C6_Witness ==
    /\ StartMonitorDone
    /\ obs_dispatch[1].buf0 = ARESPLOT_MAX_VARS_TO_MONITOR
    /\ obs_dispatch[1].len = 1 + ARESPLOT_MAX_VARS_TO_MONITOR * 5
    /\ Last(obs_dispatch).buf0 = 2 /\ Last(obs_dispatch).len = 11
    /\ g_num_monitor_vars = 2 /\ g_monitoring_active = 1
    /\ g_monitor_vars[0] = [ptr |-> MemAddr(4), type |-> ARES_TYPE_INT32]
    /\ g_monitor_vars[1] = [ptr |-> MemAddr(2), type |-> ARES_TYPE_INT16]
    /\ g_last_sample_time_ms = tick /\ tick # U32Zero
    /\ g_ack_pending = 1 /\ g_ack_status_to_send = ARES_STATUS_OK

\* the monitor-data frames the service invocation that has just returned sent
MonitorDataSent == FramesOf(obs_tick.pkts, ARESPLOT_CMD_MONITOR_DATA)

\* C7: a transmitted monitor-data frame has payload length 4 + 4 * n for the
\* n variables of the snapshot taken for it, 1 <= n <= max, and none is
\* transmitted while monitoring is inactive or the table empty.
C7_MonitorDataLength ==
    MonitorDataSent # <<>> =>
        /\ Len(MonitorDataSent) = 1
        /\ obs_tick.n >= 1 /\ obs_tick.n <= ARESPLOT_MAX_VARS_TO_MONITOR
        /\ MonitorDataSent[1][3] + 256 * MonitorDataSent[1][4] = 4 + 4 * obs_tick.n
        /\ Len(MonitorDataSent[1]) = 6 + 4 + 4 * obs_tick.n
        /\ g_monitoring_active = 1
        /\ g_num_monitor_vars = obs_tick.n

\* a frame for the full table of ten variables was transmitted
C7_Witness ==
    /\ MonitorDataSent # <<>>
    /\ obs_tick.n = ARESPLOT_MAX_VARS_TO_MONITOR
    /\ Len(MonitorDataSent[1]) = 50

\* a < b on 32-bit unsigned values
Lt32(a, b) == a[1] < b[1] \/ (a[1] = b[1] /\ a[2] < b[2])

\* C8: the elapsed time the service invocation computes is (now - last_sample)
\* modulo 2^32, also when the tick has wrapped below last_sample, and a
\* monitor-data frame is sent exactly when it is at least the period.
C8_Step ==
    obs_tick'.checked =>
        /\ g_monitoring_active = 1 /\ g_num_monitor_vars > 0
        /\ Add32(g_last_sample_time_ms, obs_tick'.diff) = tick
        /\ (FramesOf(obs_tick'.pkts, ARESPLOT_CMD_MONITOR_DATA) # <<>>)
              <=> ~Lt32(obs_tick'.diff, g_sample_period_ms)

C8_Elapsed == [][C8_Step]_vars

\* last_sample = MAX - 5, now = 10, period = 10: elapsed 16, a frame is sent
C8_Witness ==
    /\ obs_tick.checked
    /\ obs_tick.last = <<65535, 65530>>
    /\ obs_tick.cur = U32(10)
    /\ obs_tick.period = U32(10)
    /\ obs_tick.diff = U32(16)
    /\ MonitorDataSent # <<>>
    /\ tick = U32(10)

\* the rate a dispatched set-sample-rate payload of four bytes requests
RequestedRate(p) == <<p[4] * 256 + p[3], p[2] * 256 + p[1]>>

\* q is max(1, floor(1000 / r)) for a rate r > 0
IsPeriodOf(q, r) ==
    IF r[1] > 0 \/ r[2] > 1000 THEN q = U32(1)
    ELSE q[1] = 0 /\ q[2] * r[2] <= 1000 /\ 1000 < (q[2] + 1) * r[2]

\* C9: a dispatched set-sample-rate frame with a 4-byte payload sets the
\* period to the default for rate 0 and to max(1, floor(1000 / r)) for a rate
\* r > 0, sets the last-sample time to the tick and queues OK; the period is
\* not zero before or after any step.
C9_Step ==
    /\ g_sample_period_ms # U32Zero
    /\ g_sample_period_ms' # U32Zero
    /\ (DispatchStep /\ Dispatched.cmd = ARESPLOT_CMD_SET_SAMPLE_RATE
          /\ Dispatched.len = 4) =>
          /\ IF RequestedRate(Dispatched.payload) = U32Zero
               THEN g_sample_period_ms' = U32(ARESPLOT_DEFAULT_SAMPLE_PERIOD_MS)
               ELSE IsPeriodOf(g_sample_period_ms', RequestedRate(Dispatched.payload))
          /\ g_last_sample_time_ms' = tick
          /\ QueuesAck(ARESPLOT_CMD_SET_SAMPLE_RATE, ARES_STATUS_OK)

C9_Period ==
    /\ g_sample_period_ms = U32(ARESPLOT_DEFAULT_SAMPLE_PERIOD_MS)
    /\ [][C9_Step]_vars

\* a rate of 1001 Hz was requested at a tick other than zero: period 1 ms
C9_Witness ==
    /\ wire = <<>> /\ hostLog # <<>>
    /\ HostLast.cmd = ARESPLOT_CMD_SET_SAMPLE_RATE
    /\ HostLast.payload = RatePayload(U32(1001))
    /\ Len(obs_dispatch) = Len(hostLog)
    /\ g_sample_period_ms = U32(1)
    /\ g_last_sample_time_ms = tick /\ tick # U32Zero
    /\ g_ack_pending = 1 /\ g_ack_status_to_send = ARES_STATUS_OK

\* the type tags the set handler converts: 0x00 to 0x06, and 0x08
ConvertedTags == (0..6) \cup {8}

\* C10: a dispatched set-variable frame of nine bytes whose type tag has no
\* conversion leaves target memory as it was, queues one acknowledgement
\* type-unsupported, and has left its critical section when it queues it.
C10_Step ==
    (DispatchStep /\ Dispatched.cmd = ARESPLOT_CMD_SET_VARIABLE
        /\ Dispatched.len = 9
        /\ Dispatched.payload[5] \notin ConvertedTags) =>
        /\ mem' = mem
        /\ QueuesAck(ARESPLOT_CMD_SET_VARIABLE, ARES_STATUS_ERROR_TYPE_UNSUPPORTED)
        /\ Last(obs_acks').cs = 1
        /\ cs_depth' = 0

C10_Unsupported == [][C10_Step]_vars

\* memory was written by one frame, then a frame with the 64-bit float tag
\* was refused
C10_Witness ==
    /\ wire = <<>> /\ Len(hostLog) = 2 /\ Len(obs_dispatch) = 2
    /\ Last(obs_dispatch).cmd = ARESPLOT_CMD_SET_VARIABLE
    /\ Last(obs_dispatch).len = 9
    /\ Last(obs_dispatch).payload[5] = ARES_TYPE_FLOAT64
    /\ mem # MemInit
    /\ mem[MemAddr(2)] = 44 /\ mem[MemAddr(3)] = 1
    /\ g_ack_pending = 1
    /\ g_ack_cmd_to_ack = ARESPLOT_CMD_SET_VARIABLE
    /\ g_ack_status_to_send = ARES_STATUS_ERROR_TYPE_UNSUPPORTED
    /\ cs_depth = 0

\* the step hands a monitor-data frame to the transport
MonitorDataStep == FramesOf(obs_tick'.pkts, ARESPLOT_CMD_MONITOR_DATA) # <<>>

\* C11: two successive monitor-data transmissions are separated by at least
\* the sample period, measured on the ticks read by the service invocations
\* that sent them; the period is the one the second invocation read in its
\* section.  The ingress context may run between any two statements of the
\* service invocation that are outside a critical section.
C11_Step ==
    (MonitorDataStep /\ obs_fire.any) =>
        Ge32(Sub32(obs_fire'.cur, obs_fire.cur), svc.sample_period)

C11_MinInterval == [][C11_Step]_vars

\* the operations of kind op the step just taken made, each with the number
\* of critical sections open when it was made
OpsOf(op) == SelectSeq(obs_tick.ops, LAMBDA o : o.op = op)
OutsideSections(ops) == \A k \in 1..Len(ops) : ops[k].cs = 0

OpsMade(op) == SelectSeq(obs_tick'.ops, LAMBDA o : o.op = op)

\* C13: a step that hands a frame to the dispatcher, whatever its command id
\* and payload, enqueues exactly one acknowledgement, which carries the
\* frame's command id and is the last operation of the step; no step of the
\* ingress path hands a packet to the transport.
C13_Step ==
    /\ DispatchStep =>
          /\ Len(obs_acks') = Len(obs_acks) + 1
          /\ Last(obs_acks').cmd = Dispatched.cmd
          /\ Len(OpsMade("ack")) = 1
          /\ Last(obs_tick'.ops).op = "ack"
          /\ g_ack_pending' = 1
          /\ g_ack_cmd_to_ack' = Dispatched.cmd
          /\ g_ack_status_to_send' = Last(obs_acks').status
    /\ FeedStep => (obs_tick'.pkts = <<>> /\ OpsMade("send") = <<>>)

C13_OneAckNoSend == [][C13_Step]_vars

\* a frame of a command with no handler, carrying the longest payload a frame
\* can be built with, was dispatched and acknowledged as unknown
C13_Witness ==
    /\ wire = <<>> /\ hostLog # <<>>
    /\ HostLast.cmd = 255
    /\ Len(HostLast.payload) = ARESPLOT_SHARED_BUFFER_SIZE - 6
    /\ obs_dispatch # <<>>
    /\ Last(obs_dispatch).cmd = 255
    /\ obs_tick.ops = <<[op |-> "ack", cs |-> 1]>>
    /\ g_ack_pending = 1
    /\ g_ack_cmd_to_ack = 255
    /\ g_ack_status_to_send = ARES_STATUS_ERROR_UNKNOWN_CMD

\* the acknowledgement frames the service invocation that has just returned sent
AckSent == FramesOf(obs_tick.pkts, ARESPLOT_CMD_ACK)

\* C14: one service invocation sends at most one acknowledgement frame and at
\* most one monitor-data frame and nothing else, the acknowledgement first
\* when it sends both; the acknowledgement frame carries a 2-byte payload,
\* the command id and the status taken from the slot.
C14_OneAckThenData ==
    /\ Len(AckSent) <= 1
    /\ Len(MonitorDataSent) <= 1
    /\ Len(obs_tick.pkts) = Len(AckSent) + Len(MonitorDataSent)
    /\ (AckSent # <<>> /\ MonitorDataSent # <<>>) =>
          obs_tick.pkts = AckSent \o MonitorDataSent
    /\ AckSent # <<>> =>
          /\ obs_tick.drained
          /\ Len(AckSent[1]) = 8
          /\ AckSent[1][3] = 2 /\ AckSent[1][4] = 0
          /\ AckSent[1][5] = Last(obs_tick.acks).cmd
          /\ AckSent[1][6] = Last(obs_tick.acks).status

\* one invocation sent the acknowledgement of a start-monitor frame and then
\* the monitor data of the set it installed
C14_Witness ==
    /\ Len(obs_tick.pkts) = 2
    /\ obs_tick.pkts[1][2] = ARESPLOT_CMD_ACK
    /\ obs_tick.pkts[1][5] = ARESPLOT_CMD_START_MONITOR
    /\ obs_tick.pkts[1][6] = ARES_STATUS_OK
    /\ obs_tick.pkts[2][2] = ARESPLOT_CMD_MONITOR_DATA
    /\ obs_tick.n = 2

\* C15: a byte received in AwaitEnd hands the frame to the dispatcher if and
\* only if it is the end marker 0x5A; any other byte dispatches nothing and
\* queues no acknowledgement; the receiver is in AwaitStart afterwards.  No
\* byte received in another state dispatches.
C15_Step ==
    /\ (FeedStep /\ g_rx_state = ARES_RX_STATE_WAIT_EOP) =>
          /\ DispatchStep <=> Head(wire) = ARESPLOT_EOP
          /\ Head(wire) # ARESPLOT_EOP =>
                /\ obs_dispatch' = obs_dispatch
                /\ obs_acks' = obs_acks
                /\ OpsMade("ack") = <<>>
                /\ UNCHANGED <<g_ack_pending, g_ack_cmd_to_ack, g_ack_status_to_send>>
          /\ g_rx_state' = ARES_RX_STATE_WAIT_SOP
    /\ (FeedStep /\ g_rx_state # ARES_RX_STATE_WAIT_EOP) => ~DispatchStep

C15_EndMarker == [][C15_Step]_vars

\* a frame whose end byte is the start marker was fed whole: nothing was
\* dispatched or acknowledged and the receiver awaits a start marker
C15_Witness ==
    /\ wire = <<>> /\ Len(hostLog) = 1
    /\ HostLast.kind = "badeop"
    /\ Last(HostLast.bytes) = ARESPLOT_SOP
    /\ obs_dispatch = <<>> /\ obs_acks = <<>>
    /\ g_ack_pending = 0
    /\ g_rx_state = ARES_RX_STATE_WAIT_SOP
    /\ g_rx_cmd = 7 /\ g_rx_payload_idx = 3

\* the payload length the frame the host sent last declares in its two
\* length bytes
DeclaredLen == HostLast.bytes[3] + 256 * HostLast.bytes[4]

\* C16: when the length declared by the two length bytes exceeds the capacity
\* of 128, the step that receives the high length byte returns to AwaitStart
\* with no acknowledgement queued, nothing dispatched and no payload byte
\* stored, and no later byte of that frame is stored; a payload byte is stored
\* at an index below the capacity and below the length; the length of a
\* dispatched frame is at most the capacity.
C16_Step ==
    /\ (FeedStep /\ g_rx_state = ARES_RX_STATE_WAIT_LEN2
          /\ DeclaredLen > ARESPLOT_SHARED_BUFFER_SIZE) =>
          /\ g_rx_state' = ARES_RX_STATE_WAIT_SOP
          /\ obs_acks' = obs_acks /\ OpsMade("ack") = <<>>
          /\ UNCHANGED <<g_ack_pending, g_ack_cmd_to_ack, g_ack_status_to_send>>
          /\ obs_dispatch' = obs_dispatch
          /\ g_rx_payload_buffer' = g_rx_payload_buffer
    /\ (FeedStep /\ HostLast.kind = "oversize") =>
          /\ g_rx_payload_buffer' = g_rx_payload_buffer
          /\ obs_dispatch' = obs_dispatch
          /\ obs_acks' = obs_acks
    /\ (FeedStep /\ g_rx_state = ARES_RX_STATE_WAIT_PAYLOAD) =>
          /\ g_rx_payload_idx < ARESPLOT_SHARED_BUFFER_SIZE
          /\ g_rx_payload_idx < g_rx_payload_len
          /\ g_rx_payload_buffer'[g_rx_payload_idx] = Head(wire)
    /\ DispatchStep => Dispatched.len <= ARESPLOT_SHARED_BUFFER_SIZE

C16_LengthLimit == [][C16_Step]_vars

\* a frame declaring 129 bytes was dropped at its high length byte, and the
\* frame of 128 payload bytes sent after it was stored and dispatched
C16_Witness ==
    /\ wire = <<>> /\ Len(hostLog) = 2
    /\ hostLog[1].kind = "oversize"
    /\ hostLog[1].bytes[3] + 256 * hostLog[1].bytes[4] = ARESPLOT_SHARED_BUFFER_SIZE + 1
    /\ HostLast.kind = "valid"
    /\ Len(HostLast.payload) = ARESPLOT_SHARED_BUFFER_SIZE
    /\ Len(obs_dispatch) = 1
    /\ Last(obs_dispatch).len = ARESPLOT_SHARED_BUFFER_SIZE
    /\ Last(obs_dispatch).payload = HostLast.payload
    /\ g_rx_payload_idx = ARESPLOT_SHARED_BUFFER_SIZE
    /\ Len(obs_acks) = 1

\* the frames before the last one the host sent
HostPrev == hostLog[Len(hostLog) - 1]

\* C17: after a frame with only its checksum or only its end byte wrong has
\* been fed whole, a well-formed frame fed next is dispatched exactly once, by
\* its last byte, with its own command id and payload; the damaged frame is
\* not dispatched.
C17_NoBlocking ==
    (/\ Len(hostLog) >= 2
     /\ HostPrev.kind \in {"badsum", "badeop"}
     /\ HostPrev.rx_at_send = ARES_RX_STATE_WAIT_SOP
     /\ HostLast.kind = "valid") =>
        /\ HostLast.rx_at_send = ARES_RX_STATE_WAIT_SOP
        /\ HostLast.dispatched_at_send = HostPrev.dispatched_at_send
        /\ wire # <<>> => Len(obs_dispatch) = HostLast.dispatched_at_send
        /\ wire = <<>> =>
              /\ Len(obs_dispatch) = HostLast.dispatched_at_send + 1
              /\ Last(obs_dispatch).cmd = HostLast.cmd
              /\ Last(obs_dispatch).len = Len(HostLast.payload)
              /\ Last(obs_dispatch).payload = HostLast.payload
              /\ g_rx_state = ARES_RX_STATE_WAIT_SOP

\* a frame with a wrong checksum was acknowledged as such and the frame of
\* 128 payload bytes fed after it was dispatched
C17_Witness ==
    /\ wire = <<>> /\ Len(hostLog) = 2
    /\ HostPrev.kind = "badsum" /\ HostPrev.cmd = 7
    /\ HostLast.kind = "valid" /\ HostLast.cmd = 9
    /\ Len(obs_dispatch) = 1
    /\ Last(obs_dispatch).cmd = 9
    /\ Last(obs_dispatch).payload = HostLast.payload
    /\ obs_acks = <<[cmd |-> 7, status |-> ARES_STATUS_ERROR_CHECKSUM, cs |-> 1],
                    [cmd |-> 9, status |-> ARES_STATUS_ERROR_UNKNOWN_CMD, cs |-> 1]>>

\* the dispatched frame d is a start-monitor command that installs a table
\* of n entries
Installs(d, n) ==
    /\ d.cmd = ARESPLOT_CMD_START_MONITOR
    /\ n >= 1 /\ n <= ARESPLOT_MAX_VARS_TO_MONITOR
    /\ d.len = 1 + 5 * n
    /\ d.payload[1] = n

\* C18: the snapshot a monitor-data frame is built from, its count and its
\* (address, type) entries in order, is the table one single successful
\* start-monitor command installed, whatever start-monitor frames the ingress
\* context processes between the steps of the service invocation; the frame
\* carries one value for each entry of the snapshot.
C18_Step ==
    MonitorDataStep =>
        /\ \E k \in 1..Len(obs_dispatch) :
              /\ Installs(obs_dispatch[k], svc.current_num_vars)
              /\ \A i \in 0..(svc.current_num_vars - 1) :
                    svc.local_monitor_vars[i] = DeclaredEntry(obs_dispatch[k].payload, i)
        /\ Len(Last(obs_tick'.pkts)) = 10 + 4 * svc.current_num_vars

C18_ConsistentSnapshot == [][C18_Step]_vars

\* a table of one entry was installed; during a service invocation, before
\* its snapshot, a table of two other entries replaced it, and the invocation
\* sent monitor data for those two
C18_Witness ==
    /\ svc_pc = "mark_cs"
    /\ MonitorDataSent # <<>>
    /\ svc.dispatched_at_entry = 1
    /\ Len(obs_dispatch) = 2
    /\ Installs(obs_dispatch[1], 1)
    /\ Installs(obs_dispatch[2], 2)
    /\ svc.current_num_vars = 2
    /\ svc.local_monitor_vars[0] = DeclaredEntry(obs_dispatch[2].payload, 0)
    /\ svc.local_monitor_vars[0] # DeclaredEntry(obs_dispatch[1].payload, 0)
    /\ svc.local_monitor_vars[1] = DeclaredEntry(obs_dispatch[2].payload, 1)

\* C19: a service invocation that read tick c and found a sample due sends
\* exactly one monitor-data frame and sets the last-sample time to c, however
\* many periods have gone by; an invocation that finds the last-sample time
\* still at the tick of the last transmission sends nothing before a whole
\* period has gone by since.
C19_Step ==
    /\ (obs_tick'.checked /\ obs_tick'.due) =>
          /\ obs_tick'.cur = tick
          /\ g_last_sample_time_ms' = tick
          /\ Len(FramesOf(obs_tick'.pkts, ARESPLOT_CMD_MONITOR_DATA)) = 1
          /\ obs_fire' = [any |-> TRUE, cur |-> tick]
    /\ (obs_tick'.checked /\ obs_fire.any
          /\ g_last_sample_time_ms = obs_fire.cur
          /\ Lt32(Sub32(tick, obs_fire.cur), g_sample_period_ms)) =>
          /\ ~MonitorDataStep
          /\ UNCHANGED <<g_last_sample_time_ms, obs_fire>>

C19_NoCatchUp == [][C19_Step]_vars

\* more than three periods of 5 ms had gone by: one frame, and the last
\* sample time is the tick
C19_Witness ==
    /\ obs_tick.checked /\ obs_tick.due
    /\ obs_tick.period = U32(5)
    /\ obs_tick.diff = U32(16)
    /\ Len(MonitorDataSent) = 1
    /\ g_last_sample_time_ms = tick
    /\ obs_fire = [any |-> TRUE, cur |-> tick]

\* C20: a dispatched set-variable frame whose payload is not 9 bytes long, or
\* set-sample-rate frame whose payload is not 4 bytes long, puts {its command
\* id, invalid-payload} in the slot and changes nothing else: not the monitor
\* table, the monitoring flag, the sample period, the last-sample time or
\* target memory.
C20_Step ==
    (DispatchStep
       /\ \/ Dispatched.cmd = ARESPLOT_CMD_SET_VARIABLE /\ Dispatched.len # 9
          \/ Dispatched.cmd = ARESPLOT_CMD_SET_SAMPLE_RATE /\ Dispatched.len # 4) =>
        /\ QueuesAck(Dispatched.cmd, ARES_STATUS_ERROR_INVALID_PAYLOAD)
        /\ UNCHANGED <<g_monitor_vars, g_num_monitor_vars, g_monitoring_active,
                       g_sample_period_ms, g_last_sample_time_ms, mem>>
        /\ OpsMade("store") = <<>> /\ OpsMade("write") = <<>>

C20_ShapeErrors == [][C20_Step]_vars

\* the period was set to 5 ms at tick 0; at tick 16 a set-sample-rate frame of
\* five bytes asking for 100 Hz was refused
C20_Witness ==
    /\ wire = <<>> /\ Len(hostLog) = 2 /\ Len(obs_dispatch) = 2
    /\ Last(obs_dispatch).cmd = ARESPLOT_CMD_SET_SAMPLE_RATE
    /\ Last(obs_dispatch).len = 5
    /\ g_sample_period_ms = U32(5)
    /\ g_last_sample_time_ms = U32Zero /\ tick = U32(16)
    /\ g_ack_pending = 1
    /\ g_ack_cmd_to_ack = ARESPLOT_CMD_SET_SAMPLE_RATE
    /\ g_ack_status_to_send = ARES_STATUS_ERROR_INVALID_PAYLOAD

\* the step is the slot section of a service invocation
AckSectionStep == svc_pc = "ack_cs" /\ svc_pc' # "ack_cs"

\* the step hands an acknowledgement frame to the transport
AckFrameStep == FramesOf(obs_tick'.pkts, ARESPLOT_CMD_ACK) # <<>>

\* the step just taken transmitted the acknowledgement {p[1], p[2]}
Transmitted(p) == AckSent = <<FrameBytes(ARESPLOT_CMD_ACK, p)>>

\* C21: a service invocation whose slot section finds an acknowledgement
\* pending clears the slot and then transmits exactly one acknowledgement
\* frame, carrying what the section took from the slot; one that finds none
\* transmits none, and the slot is pending only if an acknowledgement was
\* queued since it was last drained, so no acknowledgement is transmitted
\* twice.  While the service keeps being invoked, a pending acknowledgement
\* leads to the transmission of an acknowledgement frame: every queued
\* acknowledgement is transmitted unless a newer one was queued over it.
C21_Step ==
    /\ AckSectionStep =>
          /\ g_ack_pending' = 0
          /\ obs_acks' = <<>>
          /\ svc'.process_ack = g_ack_pending
          /\ g_ack_pending = 1 =>
                /\ svc'.ack_cmd_to_process = g_ack_cmd_to_ack
                /\ svc'.status_to_process = g_ack_status_to_send
          /\ svc_pc' = (IF g_ack_pending = 1 THEN "ack_send" ELSE "check")
          /\ ~AckFrameStep
    /\ AckFrameStep =>
          /\ svc_pc = "ack_send" /\ svc_pc' = "check"
          /\ svc.process_ack = 1
          /\ obs_tick'.pkts =
                <<FrameBytes(ARESPLOT_CMD_ACK,
                             <<svc.ack_cmd_to_process, svc.status_to_process>>)>>
          /\ UNCHANGED <<g_ack_pending, obs_acks>>
    /\ (svc_pc = "ack_send" /\ svc_pc' # "ack_send") => AckFrameStep
    /\ (svc_pc' = "ack_send") =>
          (svc_pc = "ack_send" \/ (AckSectionStep /\ g_ack_pending = 1))
    /\ (g_ack_pending' = 1) <=> (obs_acks' # <<>>)

C21_Drain ==
    /\ [][C21_Step]_vars
    /\ (g_ack_pending = 1) ~> (AckSent # <<>>)

\* the acknowledgement of an unknown command was queued over that of a
\* refused start-monitor frame, and was the one transmitted
C21_Witness ==
    /\ Transmitted(<<7, ARES_STATUS_ERROR_UNKNOWN_CMD>>)
    /\ Len(obs_dispatch) = 2
    /\ obs_dispatch[1].cmd = ARESPLOT_CMD_START_MONITOR
    /\ obs_dispatch[1].buf0 = 11
    /\ g_ack_pending = 0
    /\ svc_pc = "check"

\* the receiver s after the bytes bs[lo..hi] were fed to it one by one, in
\* order; the range is split in halves, and s is looked at before the bytes
\* are fed, to keep the evaluation shallow
RECURSIVE FeedRange(_, _, _, _, _)
FeedRange(s, bs, lo, hi, now) ==
    IF lo > hi \/ s.g_rx_payload_len < 0 THEN s
    ELSE IF lo = hi THEN aresplot_rx_feed_byte(s, bs[lo], now, U32Zero)
    ELSE LET mid == (lo + hi) \div 2
         IN FeedRange(FeedRange(s, bs, lo, mid, now), bs, mid + 1, hi, now)

FeedAll(s, bs, now) == FeedRange(s, bs, 1, Len(bs), now)

\* what a start-monitor frame leaves behind: the acknowledgement status in
\* the slot and the monitor set
MonitorOutcome(s) ==
    [pending |-> s.g_ack_pending,
     cmd |-> s.g_ack_cmd_to_ack,
     status |-> s.g_ack_status_to_send,
     active |-> s.g_monitoring_active,
     set |-> [i \in 1..s.g_num_monitor_vars |-> s.g_monitor_vars[i - 1]]]

\* a second receiver: initialised, fed the frame g, and then fed the frame
\* the host sent last
OtherReceiver(g) ==
    FeedAll(FeedAll(aresplot_init(ZeroStatics), g.bytes, tick), HostLast.bytes, tick)

\* C22: when a well-formed start-monitor frame is dispatched by a receiver
\* that received another frame before, the status queued and the monitor set
\* are those any other receiver reaches that was fed some other frame before
\* and then this one: they depend on the frame's payload length and payload
\* bytes only.
C22_Step ==
    (DispatchStep
       /\ Len(hostLog) > 1
       /\ HostLast.kind = "valid"
       /\ HostLast.cmd = ARESPLOT_CMD_START_MONITOR
       /\ Dispatched.cmd = ARESPLOT_CMD_START_MONITOR
       /\ Dispatched.payload = HostLast.payload) =>
        \A g \in FramesValid : MonitorOutcome(OtherReceiver(g)) = MonitorOutcome(State')

C22_FrameDetermines == [][C22_Step]_vars

\* the {command id, status} pairs the acknowledgement traffic queues, one
\* for each of its frames
AckPairs ==
    {<<ARESPLOT_CMD_START_MONITOR, ARES_STATUS_OK>>,
     <<ARESPLOT_CMD_START_MONITOR, ARES_STATUS_ERROR_MCU_BUSY_OR_LIMIT>>,
     <<ARESPLOT_CMD_SET_VARIABLE, ARES_STATUS_ERROR_INVALID_PAYLOAD>>,
     <<7, ARES_STATUS_ERROR_UNKNOWN_CMD>>,
     <<ARESPLOT_CMD_SET_SAMPLE_RATE, ARES_STATUS_ERROR_CHECKSUM>>}

\* the pair written by the enqueue a
PairOf(a) == <<a.cmd, a.status>>

\* C23: with enqueues in the ingress context running between the statements
\* of the service, the slot always holds the pair of one enqueue, the slot
\* section takes the pair of the enqueue made last, no later enqueue changes
\* what the section took, and the acknowledgement frame carries exactly that
\* pair: a command id is never sent with the status of another enqueue.
C23_Step ==
    /\ \A k \in 1..Len(obs_acks') : PairOf(obs_acks'[k]) \in AckPairs
    /\ g_ack_pending' = 1 =>
          <<g_ack_cmd_to_ack', g_ack_status_to_send'>> = PairOf(Last(obs_acks'))
    /\ (AckSectionStep /\ g_ack_pending = 1) =>
          <<svc'.ack_cmd_to_process, svc'.status_to_process>> = PairOf(Last(obs_acks))
    /\ (svc_pc = "ack_send" /\ svc_pc' = "ack_send") =>
          /\ svc'.ack_cmd_to_process = svc.ack_cmd_to_process
          /\ svc'.status_to_process = svc.status_to_process
    /\ AckFrameStep =>
          \E p \in AckPairs :
             /\ p = <<svc.ack_cmd_to_process, svc.status_to_process>>
             /\ obs_tick'.pkts = <<FrameBytes(ARESPLOT_CMD_ACK, p)>>

C23_PairIntegrity == [][C23_Step]_vars

\* the acknowledgement of a refused start-monitor frame was taken from the
\* slot, the acknowledgement of an unknown command was queued before the
\* frame was sent, and the frame carried the pair taken
C23_Witness ==
    /\ Transmitted(<<ARESPLOT_CMD_START_MONITOR, ARES_STATUS_ERROR_MCU_BUSY_OR_LIMIT>>)
    /\ g_ack_pending = 1
    /\ g_ack_cmd_to_ack = 7
    /\ g_ack_status_to_send = ARES_STATUS_ERROR_UNKNOWN_CMD
    /\ Len(obs_acks) = 1

\* C24: from the moment the service has taken from the slot, and so
\* transmits, the acknowledgement of a start-monitor frame that left
\* monitoring inactive, until a start-monitor frame installs a set, no step
\* hands a monitor-data frame to the transport and monitoring is inactive,
\* wherever the ingress context runs between the statements of the service.
C24_QuietAfterRefusal ==
    obs_quiet =>
        /\ MonitorDataSent = <<>>
        /\ g_monitoring_active = 0
        /\ svc_pc \in {"idle", "ack_cs", "ack_send", "check"}

\* a set was installed and sampled, a start-monitor frame of the wrong length
\* was dispatched, and its acknowledgement has just been transmitted
C24_Witness ==
    /\ obs_quiet
    /\ obs_fire.any
    /\ Transmitted(<<ARESPLOT_CMD_START_MONITOR, ARES_STATUS_ERROR_INVALID_PAYLOAD>>)
    /\ Len(obs_dispatch) = 2
    /\ g_monitoring_active = 0

\* C25: in every state in which no critical section is open, the table count
\* is at most the maximum, and the monitoring flag is set only if the count
\* is at least 1.
C25_TableBounds ==
    cs_depth = 0 =>
        /\ g_num_monitor_vars \in 0..ARESPLOT_MAX_VARS_TO_MONITOR
        /\ g_monitoring_active \in {0, 1}
        /\ g_monitoring_active = 1 => g_num_monitor_vars >= 1

\* a start-monitor frame with count 11 was refused, and then a frame that
\* fills the table was installed
C25_Witness ==
    /\ cs_depth = 0
    /\ Len(obs_dispatch) = 2
    /\ obs_dispatch[1].buf0 = ARESPLOT_MAX_VARS_TO_MONITOR + 1
    /\ g_monitoring_active = 1
    /\ g_num_monitor_vars = ARESPLOT_MAX_VARS_TO_MONITOR

====
